---- MODULE Spec2Model ----
(***************************************************************************)
(* State-machine model of src/app.py (clinic-ops-app): the retry wrapper,  *)
(* the cached loader, the two entry wizards and the six write paths, over   *)
(* a remote spreadsheet that may fail any remote call.                      *)
(*                                                                          *)
(* Granularity: one step per remote call (open_by_url, worksheet lookup,    *)
(* add_worksheet, append_row, one tab read) together with the local code    *)
(* that follows it up to the next remote call; the continuation after       *)
(* retry_api_call (cache clear, wizard reset, messages) is a step of its    *)
(* own because it touches the shared cache.                                 *)
(*                                                                          *)
(* Text that the code trims (str.strip) is a sequence of tokens in which    *)
(* " " is whitespace; other text is a string.                               *)
(***************************************************************************)
EXTENDS Integers, Sequences, FiniteSets, TLC

\* ------------------------------------------------------------------ bounds
\* Sessions served by the one Streamlit process (one script thread each).
Sessions == {"A", "B"}
\* Remote calls the store may fail during one behaviour.
MaxFaults == 3
\* Rows the spreadsheet may take beyond those it was deployed with before the
\* model stops starting new submissions.
MaxRows == 1
\* random.uniform(0, 1) is drawn from k/JitterSteps, k in 0..JitterSteps;
\* waits are counted in units of 1/JitterSteps second.
JitterSteps == 1
\* Issues of a category the user chooses among (the first MaxSubs of its list).
MaxSubs == 1
\* Events the wizard history keeps.
MaxHist == 6
\* the last day date.today() comes to
MaxDay == 3

\* ------------------------------------------------------- program constants
\* retry_api_call(func, retries=3, delay=2)
retries == 3
delay == 2
\* final step of the daily-log wizard and of the incident wizard
DailyN == 4
IncN == 3

tabs == <<"Daily_Logs", "Users", "Incidents", "Service_Logs", "Reminders",
          "Holidays", "Service_Contacts">>
TabNames == {tabs[i] : i \in 1..Len(tabs)}

incident_structure ==
  ("Facility" :> <<"AC Not Cooling", "Water Leakage", "Power Failure", "Furniture Broken">>) @@
  ("IT & Network" :> <<"Internet Down", "Printer Issue", "PC Slow/Crash", "Software Error">>) @@
  ("Medical Equipment" :> <<"BP Apparatus", "Weighing Scale", "X-Ray Issue">>) @@
  ("Staffing" :> <<"Staff Absent", "Late Arrival", "Uniform Issue">>)

menus == <<"Rheuma CARE Daily", "Incident Reporting", "Holiday List", "Reminders", "Contact Us">>

required_services ==
  <<"AC Service", "Interior Service", "Electrical Service", "Plumbing Service",
    "CCTV Service", "Network Service", "Desktop Service", "PBX Service",
    "Telephone Service", "Bitvoice Service", "Server Service", "EMR Elixir Service">>

reminder_types == <<"Electricity Bill", "Water Bill", "Rent", "SIP", "ISP1", "ISP2">>

\* ------------------------------------------------------------ error classes
\* str(e) of the exceptions an operation raises: two that retry_api_call
\* classifies transient, and one it does not. The store raises the first and the last.
Errors == {"429", "Quota exceeded", "500"}
StoreErrors == {"429", "500"}
QuotaError == "API Quota Exceeded. Please try again later."
DuplicateError == "400 already exists"
NotFound == "WorksheetNotFound"
NoError == "none"

\* an except clause that takes every exception for a quota error
IsTransientAlways(e) == TRUE

\* "429" in str(e) or "Quota exceeded" in str(e)
IsTransient(e) == e \in {"429", "Quota exceeded"}

Pow2(n) == IF n = 0 THEN 1 ELSE IF n = 1 THEN 2 ELSE IF n = 2 THEN 4 ELSE 8

\* a wait that does not grow with the attempt
WaitTimeFlat(i, j) == delay * JitterSteps + j

\* wait_time = delay * (2 ** i) + random.uniform(0, 1), in 1/JitterSteps s
WaitTime(i, j) == delay * Pow2(i) * JitterSteps + j

\* --------------------------------------------------------------------- text
RECURSIVE LStrip(_)
LStrip(t) == IF t # <<>> /\ Head(t) = " " THEN LStrip(Tail(t)) ELSE t

RECURSIVE RStrip(_)
RStrip(t) ==
  IF t # <<>> /\ t[Len(t)] = " " THEN RStrip(SubSeq(t, 1, Len(t) - 1)) ELSE t

\* str.strip()
Strip(t) == RStrip(LStrip(t))

\* the two-digit day of the month, days 1..5 of one month
DayText(d) == <<"01", "02", "03", "04", "05">>[d]

\* date.strftime("%d/%m/%Y") and date.strftime("%Y-%m-%d") of day d
FmtDMY(d) == <<DayText(d), "/", "MM", "/", "YYYY">>
FmtYMD(d) == <<"YYYY", "-", "MM", "-", DayText(d)>>

\* datetime.strftime("%Y-%m-%d %H:%M:%S") at the time t of day d
Stamp(d, t) == FmtYMD(d) \o <<" ", t>>

\* pd.to_datetime(ts).dt.date of such a text: the day it names
to_date(ts) == CHOOSE d \in 1..5 : SubSeq(ts, 1, 5) = FmtYMD(d)

\* ------------------------------------------------------------------- tables
\* A DataFrame is the sequence of its records; the empty DataFrame is <<>>.
EmptyDF == <<>>

\* the cache entry of load_data: empty, or holding the one snapshot
NoSnapshot == <<>>
Snapshot(data) == <<data>>

Columns(df) == IF df = <<>> THEN {} ELSE DOMAIN df[1]

\* data.get(tab) of a snapshot: every reader treats None and an empty DataFrame alike
DF(data, tab) == IF tab \in DOMAIN data THEN data[tab] ELSE EmptyDF

\* a Python dict: a function from its keys
EmptyDict == [k \in {} |-> 0]

\* dict.update(e)
Update(d, e) == [k \in DOMAIN d \cup DOMAIN e |-> IF k \in DOMAIN e THEN e[k] ELSE d[k]]

\* dict.get(k, default)
Get(d, k, default) == IF k \in DOMAIN d THEN d[k] ELSE default

VARIABLES
  store,        \* remote spreadsheet: tab name -> rows, in append order
  present,      \* the worksheets that exist in the spreadsheet
  cache,        \* st.cache_data entry of load_data: NoSnapshot or Snapshot(tab -> DataFrame)
  today,        \* date.today() as a day number
  flaky,        \* the remote calls the store may fail
  faults,       \* remote-call failures the store may still inject
  logged_in, username, center, role,   \* st.session_state, per session
  menu,         \* the sidebar radio, the user choosing among the entries `shown`
  daily_step, daily_data, inc_step, inc_data,
  msg,          \* the last st.success / st.error shown to the session
  pc,           \* where the session's script is: "idle" or inside a remote call path
  op,           \* the function retry_api_call is running for the session
  att,          \* retry_api_call's loop index i
  ncalls,       \* invocations of func made by the current retry_api_call
  waits,        \* the time.sleep durations of the current retry_api_call
  fails,        \* str(e) of the exceptions func raised in the current retry_api_call
  swallowed,    \* tab |-> what the except of _fetch's loop caught, this invocation
  err,          \* the exception retry_api_call raised
  arg,          \* what the closure captured when the button was pressed
  pos,          \* rows already appended by the current invocation of _update / tabs read by _fetch
  fdata,        \* the dict `data` being built by _fetch
  ret,          \* the value retry_api_call returned
  applied,      \* rows appended on behalf of the current retry_api_call, in order
  hist          \* wizard events since the wizard was last at Step 1 with an empty accumulator

vars == <<store, present, cache, today, flaky, faults, logged_in, username, center, role,
          menu, daily_step, daily_data, inc_step, inc_data, msg, pc, op, att,
          ncalls, waits, fails, swallowed, err, ret, arg, pos, fdata, applied, hist>>

remote == <<store, present>>
session == <<logged_in, username, center, role>>
wizards == <<daily_step, daily_data, inc_step, inc_data>>
callvars == <<pc, op, att, ncalls, waits, fails, swallowed, err, ret, arg, pos, fdata,
              applied>>

\* ------------------------------------------------------- reads of a snapshot
\* a comparison with the inputs as they were typed
check_login_exact(data, u, p) ==
  LET df_users == DF(data, "Users")
      NoMatch == [is_valid |-> FALSE, center |-> "", role |-> ""]
  IN IF df_users = EmptyDF THEN NoMatch
     ELSE IF ~({"Username", "Password"} \subseteq Columns(df_users)) THEN NoMatch
     ELSE LET Match(r) == Strip(r.Username) = u /\ Strip(r.Password) = p
              user_match == SelectSeq(df_users, Match)
          IN IF user_match = <<>> THEN NoMatch
             ELSE IF ~({"Center_Name", "Role"} \subseteq Columns(df_users)) THEN NoMatch
             ELSE [is_valid |-> TRUE, center |-> user_match[1].Center_Name,
                   role |-> user_match[1].Role]

\* check_login(username, password) on the snapshot `data`
check_login(data, u, p) ==
  LET df_users == DF(data, "Users")
      NoMatch == [is_valid |-> FALSE, center |-> "", role |-> ""]
  IN IF df_users = EmptyDF THEN NoMatch
     ELSE IF ~({"Username", "Password"} \subseteq Columns(df_users)) THEN NoMatch
     ELSE LET Match(r) == Strip(r.Username) = Strip(u) /\ Strip(r.Password) = Strip(p)
              user_match == SelectSeq(df_users, Match)
          IN IF user_match = <<>> THEN NoMatch
             ELSE IF ~({"Center_Name", "Role"} \subseteq Columns(df_users)) THEN NoMatch
             ELSE [is_valid |-> TRUE, center |-> user_match[1].Center_Name,
                   role |-> user_match[1].Role]

\* a comparison of the Date cell as it was typed
is_holiday_tomorrow_exact(data, center_name, day) ==
  LET df_h == DF(data, "Holidays")
      tomorrow == day + 1
      Match(r) == /\ r.Date \in {FmtDMY(tomorrow), FmtYMD(tomorrow)}
                  /\ r.Center = center_name
  IN IF df_h = EmptyDF THEN FALSE
     ELSE IF ~({"Date", "Center"} \subseteq Columns(df_h)) THEN FALSE
     ELSE SelectSeq(df_h, Match) # <<>>

\* is_holiday_tomorrow(center_name) on the snapshot `data`, the day being `day`
is_holiday_tomorrow(data, center_name, day) ==
  LET df_h == DF(data, "Holidays")
      tomorrow == day + 1
      Match(r) == /\ Strip(r.Date) \in {FmtDMY(tomorrow), FmtYMD(tomorrow)}
                  /\ r.Center = center_name
  IN IF df_h = EmptyDF THEN FALSE
     ELSE IF ~({"Date", "Center"} \subseteq Columns(df_h)) THEN FALSE
     ELSE SelectSeq(df_h, Match) # <<>>

\* the loop of get_center_service_numbers over the rows of one centre
RECURSIVE contacts_loop(_, _)
contacts_loop(rows, final_contacts) ==
  IF rows = <<>> THEN final_contacts
  ELSE LET row == Head(rows)
           s_name == row.Service_Name
           s_num == row.Phone_Number
       IN contacts_loop(Tail(rows),
            IF s_name \in DOMAIN final_contacts /\ s_num # ""
            THEN [final_contacts EXCEPT ![s_name] = s_num]
            ELSE final_contacts)

\* a loop over the rows of every centre
get_center_service_numbers_all(data, center_name) ==
  LET df_contacts == DF(data, "Service_Contacts")
      defaults == [sv \in {required_services[i] : i \in 1..Len(required_services)} |-> "Not Set"]
  IN IF df_contacts # EmptyDF /\ {"Center", "Service_Name"} \subseteq Columns(df_contacts)
     THEN contacts_loop(df_contacts, defaults)
     ELSE defaults

\* get_center_service_numbers(center_name) on the snapshot `data`
get_center_service_numbers(data, center_name) ==
  LET df_contacts == DF(data, "Service_Contacts")
      defaults == [sv \in {required_services[i] : i \in 1..Len(required_services)} |-> "Not Set"]
      OfCenter(r) == r.Center = center_name
  IN IF df_contacts # EmptyDF /\ {"Center", "Service_Name"} \subseteq Columns(df_contacts)
     THEN contacts_loop(SelectSeq(df_contacts, OfCenter), defaults)
     ELSE defaults

\* ------------------------------------------------------------ initial store
UsersRows ==
  <<[Username |-> <<"u1">>, Password |-> <<"p1">>, Role |-> "Centre Manager",
     Center_Name |-> "c1"],
    [Username |-> <<"sup">>, Password |-> <<"ps">>, Role |-> "Supervisor",
     Center_Name |-> "HQ"]>>

\* a holiday of centre c1 on day 2, typed with a trailing blank
HolidayRows ==
  <<[Date |-> <<"02", "/", "MM", "/", "YYYY", " ">>, Name |-> "Onam", Center |-> "c1"]>>

\* a holiday of centre c1 on day 4
LaterHolidayRows == <<[Date |-> FmtYMD(4), Name |-> "Vishu", Center |-> "c1"]>>

ContactRows == <<[Center |-> "c1", Service_Name |-> "AC Service", Phone_Number |-> "9999"]>>

InitStore(holidays) ==
  [t \in TabNames |->
     CASE t = "Users" -> UsersRows
       [] t = "Holidays" -> holidays
       [] t = "Service_Contacts" -> ContactRows
       [] OTHER -> <<>>]

\* ------------------------------------------------------------ rows written
\* row_data of _submit (23 columns)
DailyRow(s) ==
  LET d == daily_data[s]
      a == arg[s]
  IN [Timestamp |-> Stamp(today, "HH:MM:SS"), Username |-> username[s],
      Center_Name |-> center[s],
      offline_backup |-> Get(d, "offline_backup", "NO"),
      server_shutdown |-> Get(d, "server_shutdown", "N/A"),
      cash_deposit |-> Get(d, "cash_deposit", 0),
      cash_received |-> Get(d, "cash_received", 0),
      upi_amount |-> Get(d, "upi_amount", 0),
      card_amount |-> Get(d, "card_amount", 0),
      bill_recep |-> Get(d, "bill_recep", 0),
      bill_phar |-> Get(d, "bill_phar", 0),
      bill_lab |-> Get(d, "bill_lab", 0),
      bill_phys |-> Get(d, "bill_phys", 0),
      cnt_rebook |-> Get(d, "cnt_rebook", 0),
      cnt_tele |-> Get(d, "cnt_tele", 0),
      cnt_conf |-> Get(d, "cnt_conf", 0),
      cnt_def |-> Get(d, "cnt_def", 0),
      cnt_can |-> Get(d, "cnt_can", 0),
      tot_pat |-> a.tot_pat, new_pat |-> a.new_pat, walk_pat |-> a.walk_pat,
      reviews |-> a.reviews, notes |-> a.notes]

\* row_data of _report
IncidentRow(s) ==
  [Timestamp |-> today, Center |-> center[s],
   Category |-> inc_data[s]["category"], Subcategory |-> inc_data[s]["subcategory"],
   Description |-> arg[s].desc, Severity |-> arg[s].priority, Status |-> "Open"]

\* the row of _log_call
ServiceLogRow(s) ==
  [Timestamp |-> today, Center |-> center[s], Service |-> arg[s].name,
   Number |-> arg[s].number]

\* the rows of _update: one per reminder type whose date is set, in dict order
RECURSIVE ReminderRows(_, _, _)
ReminderRows(types, new_values, c) ==
  IF types = <<>> THEN <<>>
  ELSE LET r_type == Head(types)
           r_date == new_values[r_type]
           rest == ReminderRows(Tail(types), new_values, c)
       IN IF r_date # 0
          THEN <<[Center |-> c, Type |-> r_type, Due_Date |-> FmtYMD(r_date),
                  Recorded |-> today]>> \o rest
          ELSE rest

\* the row of _add
HolidayRow(s) == [Date |-> FmtDMY(arg[s].d), Name |-> arg[s].n, Center |-> center[s]]

\* the row of _save_contact
ContactRow(s) ==
  [Center |-> arg[s].s_center, Service_Name |-> arg[s].s_service,
   Phone_Number |-> arg[s].s_number]

WriteOps == {"_submit", "_report", "_log_call", "_update", "_add", "_save_contact"}

\* the worksheet each write function asks get_or_create_worksheet for
TabOf(o) ==
  CASE o = "_submit" -> "Daily_Logs"
    [] o = "_report" -> "Incidents"
    [] o = "_log_call" -> "Service_Logs"
    [] o = "_update" -> "Reminders"
    [] o = "_add" -> "Holidays"
    [] o = "_save_contact" -> "Service_Contacts"

\* the append_row calls one invocation of the session's write function makes
Rows(s) ==
  CASE op[s] = "_submit" -> <<DailyRow(s)>>
    [] op[s] = "_report" -> <<IncidentRow(s)>>
    [] op[s] = "_log_call" -> <<ServiceLogRow(s)>>
    [] op[s] = "_update" -> ReminderRows(reminder_types, arg[s], center[s])
    [] op[s] = "_add" -> <<HolidayRow(s)>>
    [] op[s] = "_save_contact" -> <<ContactRow(s)>>

\* ------------------------------------------------------------ retry_api_call
NoArg == EmptyDict

\* the first remote call of the function retry_api_call runs
FirstPc(o) == IF o = "mock" THEN "mock" ELSE "open"

\* the remote calls the program makes; "tab" is the read of one tab by _fetch
\* (sheet.worksheet and ws.get_all_records, lines 66-67)
CallKinds == {"open_by_url", "worksheet", "add_worksheet", "append_row", "tab"}

\* what one remote call can do: succeed, or fail while the store has faults left
Outcomes(call) ==
  {"ok"} \cup (IF faults > 0 /\ call \in flaky THEN StoreErrors ELSE {})

\* random.uniform(0, 1)
Jitters == 0..JitterSteps

\* retry_api_call(func) is entered: i = 0 and func is invoked for the first time
Enter(s, o, a) ==
  /\ pc' = [pc EXCEPT ![s] = FirstPc(o)]
  /\ op' = [op EXCEPT ![s] = o]
  /\ arg' = [arg EXCEPT ![s] = a]
  /\ att' = [att EXCEPT ![s] = 0]
  /\ ncalls' = [ncalls EXCEPT ![s] = 1]
  /\ waits' = [waits EXCEPT ![s] = <<>>]
  /\ fails' = [fails EXCEPT ![s] = <<>>]
  /\ swallowed' = [swallowed EXCEPT ![s] = EmptyDict]
  /\ err' = [err EXCEPT ![s] = NoError]
  /\ ret' = [ret EXCEPT ![s] = 0]
  /\ pos' = [pos EXCEPT ![s] = 0]
  /\ fdata' = [fdata EXCEPT ![s] = EmptyDict]
  /\ applied' = [applied EXCEPT ![s] = <<>>]

\* a loop that never gives up
MoreAttemptsAlways(i) == TRUE

\* for i in range(retries): iteration i is followed by another
MoreAttempts(i) == i + 1 < retries

\* the except clause of retry_api_call when the invocation of func raised e, and
\* the loop's next iteration or the raise after the loop; j is the jitter drawn
Caught(s, e, j) ==
  /\ fails' = [fails EXCEPT ![s] = Append(@, e)]
  /\ swallowed' = [swallowed EXCEPT ![s] = EmptyDict]
  /\ pos' = [pos EXCEPT ![s] = 0]
  /\ fdata' = [fdata EXCEPT ![s] = EmptyDict]
  /\ IF IsTransient(e)
     THEN /\ waits' = [waits EXCEPT ![s] = Append(@, WaitTime(att[s], j))]
          /\ att' = [att EXCEPT ![s] = @ + 1]
          /\ IF MoreAttempts(att[s])
             THEN /\ pc' = [pc EXCEPT ![s] = FirstPc(op[s])]
                  /\ ncalls' = [ncalls EXCEPT ![s] = @ + 1]
                  /\ err' = err
             ELSE /\ pc' = [pc EXCEPT ![s] = "raised"]
                  /\ err' = [err EXCEPT ![s] = QuotaError]
                  /\ ncalls' = ncalls
     ELSE /\ pc' = [pc EXCEPT ![s] = "raised"]
          /\ err' = [err EXCEPT ![s] = e]
          /\ UNCHANGED <<att, ncalls, waits>>

\* the handler is over: the closure and retry_api_call's locals are gone
Leave(s) ==
  /\ pc' = [pc EXCEPT ![s] = "idle"]
  /\ op' = [op EXCEPT ![s] = "none"]
  /\ arg' = [arg EXCEPT ![s] = NoArg]
  /\ att' = [att EXCEPT ![s] = 0]
  /\ ncalls' = [ncalls EXCEPT ![s] = 0]
  /\ waits' = [waits EXCEPT ![s] = <<>>]
  /\ fails' = [fails EXCEPT ![s] = <<>>]
  /\ swallowed' = [swallowed EXCEPT ![s] = EmptyDict]
  /\ err' = [err EXCEPT ![s] = NoError]
  /\ ret' = [ret EXCEPT ![s] = 0]
  /\ pos' = [pos EXCEPT ![s] = 0]
  /\ fdata' = [fdata EXCEPT ![s] = EmptyDict]
  /\ applied' = [applied EXCEPT ![s] = <<>>]

ui == <<logged_in, username, center, role, menu, daily_step, daily_data, inc_step,
        inc_data, msg>>

\* -------------------------------------------------- remote calls of a write
\* client.open_by_url(SHEET_URL), first remote call of every retried function
Open(s) ==
  /\ pc[s] = "open"
  /\ \E o \in Outcomes("open_by_url"), j \in Jitters :
       IF o = "ok"
       THEN /\ pc' = [pc EXCEPT ![s] = IF op[s] = "_fetch" THEN "tab" ELSE "lookup"]
            /\ UNCHANGED <<faults, att, ncalls, waits, fails, swallowed, err, pos, fdata>>
       ELSE /\ Caught(s, o, j)
            /\ faults' = faults - 1
  /\ UNCHANGED <<store, present, cache, today, flaky, ui, op, arg, ret, applied>>
  /\ UNCHANGED hist

\* where a write function goes once it holds the worksheet
AfterSheet(s) == IF Rows(s) = <<>> THEN "returned" ELSE "append"

\* get_or_create_worksheet: sheet.worksheet(name); any exception leads to add_worksheet
Lookup(s) ==
  /\ pc[s] = "lookup"
  /\ \E o \in Outcomes("worksheet") :
       /\ pc' = [pc EXCEPT ![s] =
                   IF o = "ok" /\ TabOf(op[s]) \in present THEN AfterSheet(s) ELSE "add"]
       /\ faults' = IF o = "ok" THEN faults ELSE faults - 1
  /\ UNCHANGED <<store, present, cache, today, flaky, ui, op, arg, att, ncalls, waits, fails,
                 swallowed, err, ret, pos, fdata, applied>>
  /\ UNCHANGED hist

\* get_or_create_worksheet: sheet.add_worksheet(title=name, ...); the store refuses a
\* second worksheet of the same title
Add(s) ==
  /\ pc[s] = "add"
  /\ \E o \in Outcomes("add_worksheet"), j \in Jitters :
       IF o = "ok" /\ TabOf(op[s]) \notin present
       THEN /\ present' = present \cup {TabOf(op[s])}
            /\ pc' = [pc EXCEPT ![s] = AfterSheet(s)]
            /\ UNCHANGED <<faults, att, ncalls, waits, fails, swallowed, err, pos, fdata>>
       ELSE /\ Caught(s, IF o = "ok" THEN DuplicateError ELSE o, j)
            /\ faults' = IF o = "ok" THEN faults ELSE faults - 1
            /\ UNCHANGED present
  /\ UNCHANGED <<store, cache, today, flaky, ui, op, arg, ret, applied>>
  /\ UNCHANGED hist

\* ws.append_row(row): the next row of the invocation
AppendRow(s) ==
  /\ pc[s] = "append"
  /\ \E o \in Outcomes("append_row"), j \in Jitters :
       IF o = "ok"
       THEN LET row == Rows(s)[pos[s] + 1]
            IN /\ store' = [store EXCEPT ![TabOf(op[s])] = Append(@, row)]
               /\ applied' = [applied EXCEPT ![s] = Append(@, row)]
               /\ pos' = [pos EXCEPT ![s] = @ + 1]
               /\ pc' = [pc EXCEPT ![s] =
                           IF pos[s] + 1 = Len(Rows(s)) THEN "returned" ELSE "append"]
               /\ UNCHANGED <<faults, att, ncalls, waits, fails, swallowed, err, fdata>>
       ELSE /\ Caught(s, o, j)
            /\ faults' = faults - 1
            /\ UNCHANGED <<store, applied>>
  /\ UNCHANGED <<present, cache, today, flaky, ui, op, arg, ret>>
  /\ UNCHANGED hist

\* a read that leaves a worksheet it could not read out of the dict
FetchTabSkipping(s) ==
  /\ pc[s] = "tab"
  /\ \E o \in Outcomes("tab") :
       LET tab == tabs[pos[s] + 1]
           caught == IF o # "ok" THEN o ELSE NotFound
       IN /\ fdata' = [fdata EXCEPT ![s] =
                         IF o = "ok" /\ tab \in present
                         THEN Update(@, [k \in {tab} |-> store[tab]]) ELSE @]
          /\ swallowed' = [swallowed EXCEPT ![s] =
                             IF o = "ok" /\ tab \in present
                             THEN @ ELSE Update(@, [k \in {tab} |-> caught])]
          /\ pos' = [pos EXCEPT ![s] = @ + 1]
          /\ pc' = [pc EXCEPT ![s] = IF pos[s] + 1 = Len(tabs) THEN "returned" ELSE "tab"]
          /\ faults' = IF o = "ok" THEN faults ELSE faults - 1
  /\ UNCHANGED <<store, present, cache, today, flaky, ui, op, arg, att, ncalls, waits, fails,
                 err, ret, applied>>
  /\ UNCHANGED hist

\* ------------------------------------------------------------------ load_data
\* _fetch: one tab of the loop; any exception leaves an empty DataFrame for the tab
FetchTab(s) ==
  /\ pc[s] = "tab"
  /\ \E o \in Outcomes("tab") :
       LET tab == tabs[pos[s] + 1]
           df == IF o = "ok" /\ tab \in present THEN store[tab] ELSE EmptyDF
           caught == IF o # "ok" THEN o ELSE NotFound
       IN /\ fdata' = [fdata EXCEPT ![s] = Update(@, [k \in {tab} |-> df])]
          /\ swallowed' = [swallowed EXCEPT ![s] =
                             IF o = "ok" /\ tab \in present
                             THEN @ ELSE Update(@, [k \in {tab} |-> caught])]
          /\ pos' = [pos EXCEPT ![s] = @ + 1]
          /\ pc' = [pc EXCEPT ![s] = IF pos[s] + 1 = Len(tabs) THEN "returned" ELSE "tab"]
          /\ faults' = IF o = "ok" THEN faults ELSE faults - 1
  /\ UNCHANGED <<store, present, cache, today, flaky, ui, op, arg, att, ncalls, waits, fails,
                 err, ret, applied>>
  /\ UNCHANGED hist

\* ------------------------------------------------------------ wizard history
\* hist is Off where no history is kept; otherwise it lists the events of the
\* daily-log wizard since it was last at Step 1 with an empty accumulator, and
\* the wizard takes no further event once MaxHist are listed.
Off == <<[e |-> "off", in |-> EmptyDict]>>
HistRoom == hist = Off \/ Len(hist) < MaxHist
Record(e, in) == hist' = IF hist = Off THEN Off ELSE Append(hist, [e |-> e, in |-> in])
Restart == hist' = IF hist = Off THEN Off ELSE <<>>

\* --------------------------------------------------------------- user inputs
LoginInputs ==
  {[u |-> <<" ", "u1">>, p |-> <<"p1">>],
   [u |-> <<"sup">>, p |-> <<"ps">>],
   [u |-> <<"u1">>, p |-> <<"bad">>]}

Step2Inputs ==
  {[cash_deposit |-> 100, cash_received |-> 250, upi_amount |-> 40, card_amount |-> 0]}

Step3Inputs ==
  {[bill_recep |-> 3, bill_phar |-> 2, bill_lab |-> 1, bill_phys |-> 0, cnt_rebook |-> 1,
    cnt_tele |-> 0, cnt_conf |-> 4, cnt_def |-> 0, cnt_can |-> 0]}

Step4Inputs ==
  {[tot_pat |-> 5, new_pat |-> 2, walk_pat |-> 1, reviews |-> 0, notes |-> "ok"]}

IncCats == {"Facility", "Staffing"}
IncSubs(cat) == {incident_structure[cat][i] : i \in 1..MaxSubs}
IncInputs == {[desc |-> "leak", priority |-> "High"]}

\* date_input values of the reminders form; 0 is an empty date_input
ReminderInputs ==
  {[t \in {reminder_types[i] : i \in 1..Len(reminder_types)} |->
      IF t = "Electricity Bill" THEN 3 ELSE IF t = "Rent" THEN d ELSE 0] : d \in {0, 4}}

HolidayInputs == {[d |-> 2, n |-> "Onam"]}
ContactServices == {"AC Service", "CCTV Service"}
ContactNumbers == {"8888"}

\* -------------------------------------------------------------------- main()
NoMsg == [kind |-> "none", text |-> ""]
Success(t) == [kind |-> "success", text |-> t]
Error(t, e) == [kind |-> "error", text |-> t, e |-> e]

\* what the session's page shows after the run: the run's message, or none
Shown(s, m) == msg' = [msg EXCEPT ![s] = m]

Idle(s) == pc[s] = "idle"

\* the session is logged in as a centre user and the sidebar radio shows m
InView(s, m) == logged_in[s] /\ Idle(s) /\ role[s] # "Supervisor" /\ menu[s] = m

\* lines 583-591: what the Log In handler does with check_login's result
AfterCheckLogin(s, u, res) ==
  IF res.is_valid
  THEN /\ logged_in' = [logged_in EXCEPT ![s] = TRUE]
       /\ username' = [username EXCEPT ![s] = u]
       /\ center' = [center EXCEPT ![s] = res.center]
       /\ role' = [role EXCEPT ![s] = res.role]
       /\ msg' = [msg EXCEPT ![s] = NoMsg]
  ELSE /\ msg' = [msg EXCEPT ![s] = Error("Invalid credentials", NoError)]
       /\ UNCHANGED <<logged_in, username, center, role>>

\* the Log In button: check_login reads load_data(), from the cache or by a fetch
LogIn(s) ==
  /\ ~logged_in[s] /\ Idle(s)
  /\ \E c \in LoginInputs :
       IF cache # NoSnapshot
       THEN /\ AfterCheckLogin(s, c.u, check_login(cache[1], c.u, c.p))
            /\ UNCHANGED callvars
       ELSE /\ Enter(s, "_fetch", [caller |-> "check_login", u |-> c.u, p |-> c.p])
            /\ Shown(s, NoMsg)
            /\ UNCHANGED <<logged_in, username, center, role>>
  /\ UNCHANGED <<store, present, cache, today, flaky, faults, menu, wizards>>
  /\ UNCHANGED hist

\* a rerun renders a view that calls load_data() while nothing is cached
Render(s) ==
  /\ logged_in[s] /\ Idle(s) /\ cache = NoSnapshot
  /\ IF role[s] = "Supervisor" THEN TRUE
     ELSE IF menu[s] = "Rheuma CARE Daily" THEN daily_step[s] = 1
     ELSE menu[s] \in {"Holiday List", "Reminders", "Contact Us"}
  /\ Enter(s, "_fetch", [caller |-> "render"])
  /\ Shown(s, NoMsg)
  /\ UNCHANGED <<store, present, cache, today, flaky, faults, session, menu, wizards>>
  /\ UNCHANGED hist

\* load_data() returns: st.cache_data stores the value, the caller goes on
LoadReturn(s) ==
  /\ pc[s] = "returned" /\ op[s] = "_fetch"
  /\ cache' = Snapshot(fdata[s])
  /\ IF arg[s].caller = "check_login"
     THEN AfterCheckLogin(s, arg[s].u, check_login(fdata[s], arg[s].u, arg[s].p))
     ELSE UNCHANGED <<logged_in, username, center, role, msg>>
  /\ Leave(s)
  /\ UNCHANGED <<store, present, today, flaky, faults, menu, wizards>>
  /\ UNCHANGED hist

\* load_data() raises: nothing is cached; the login handler reports it (line 593),
\* a view shows the uncaught exception
LoadRaise(s) ==
  /\ pc[s] = "raised" /\ op[s] = "_fetch"
  /\ msg' = [msg EXCEPT ![s] =
               IF arg[s].caller = "check_login"
               THEN Error("Login failed (API Error). Try again.", err[s])
               ELSE Error("uncaught", err[s])]
  /\ Leave(s)
  /\ UNCHANGED <<store, present, cache, today, flaky, faults, logged_in, username, center, role,
                 menu, wizards>>
  /\ UNCHANGED hist

\* the ttl=300 of st.cache_data elapses
Expire ==
  /\ cache # NoSnapshot
  /\ cache' = NoSnapshot
  /\ UNCHANGED <<store, present, today, flaky, faults, ui, callvars, hist>>

\* the sidebar radio, the user choosing among the entries `shown`
SelectMenuIn(s, shown) ==
  /\ logged_in[s] /\ Idle(s) /\ role[s] # "Supervisor"
  /\ \E i \in 1..Len(menus) :
       /\ menus[i] # menu[s] /\ menus[i] \in shown
       /\ menu' = [menu EXCEPT ![s] = menus[i]]
  /\ Shown(s, NoMsg)
  /\ UNCHANGED <<store, present, cache, today, flaky, faults, logged_in, username, center, role,
                 wizards, callvars>>
  /\ UNCHANGED hist

\* the user moves between the two wizards
SelectWizard(s) == SelectMenuIn(s, {"Rheuma CARE Daily", "Incident Reporting"})

\* the user moves between the three forms
SelectForm(s) == SelectMenuIn(s, {"Holiday List", "Reminders", "Contact Us"})

\* a Log Out that empties the accumulators and leaves inc_step where it is
LogOutEmptying(s) ==
  /\ logged_in[s] /\ Idle(s)
  /\ logged_in' = [logged_in EXCEPT ![s] = FALSE]
  /\ daily_step' = [daily_step EXCEPT ![s] = 1]
  /\ daily_data' = [daily_data EXCEPT ![s] = EmptyDict]
  /\ inc_data' = [inc_data EXCEPT ![s] = EmptyDict]
  /\ menu' = [menu EXCEPT ![s] = menus[1]]
  /\ Shown(s, NoMsg)
  /\ UNCHANGED <<store, present, cache, today, flaky, faults, username, center, role,
                 inc_step, callvars>>
  /\ HistRoom /\ Record("Log Out", EmptyDict)

\* the Log Out button (lines 610-613); the radio is not drawn on the login page
\* and starts at its first option again
LogOut(s) ==
  /\ logged_in[s] /\ Idle(s)
  /\ logged_in' = [logged_in EXCEPT ![s] = FALSE]
  /\ daily_step' = [daily_step EXCEPT ![s] = 1]
  /\ menu' = [menu EXCEPT ![s] = menus[1]]
  /\ Shown(s, NoMsg)
  /\ UNCHANGED <<store, present, cache, today, flaky, faults, username, center, role,
                 daily_data, inc_step, inc_data, callvars>>
  /\ HistRoom /\ Record("Log Out", EmptyDict)

\* a Submit button drawn one step early
DailySubmitShownEarly(s) == daily_step[s] >= DailyN - 1

\* ------------------------------------------------------ show_daily_reporting
\* the Submit button is drawn by the branch of the last step only (line 251)
DailySubmitShown(s) == daily_step[s] = DailyN

\* Step 1, the Next button (lines 173-183); is_holiday_tomorrow reads the cache
DailyNext1(s) ==
  /\ InView(s, "Rheuma CARE Daily") /\ daily_step[s] = 1 /\ cache # NoSnapshot
  /\ LET is_holiday == is_holiday_tomorrow(cache[1], center[s], today)
     IN \E offline_backup \in BOOLEAN,
           server_shutdown \in (IF is_holiday THEN BOOLEAN ELSE {FALSE}) :
          LET server_val == IF ~is_holiday THEN "N/A"
                            ELSE IF server_shutdown THEN "YES" ELSE "NO"
              in == [offline_backup |-> IF offline_backup THEN "YES" ELSE "NO",
                     server_shutdown |-> server_val]
          IN /\ daily_data' = [daily_data EXCEPT ![s] = Update(@, in)]
             /\ HistRoom /\ Record("Next", in)
  /\ daily_step' = [daily_step EXCEPT ![s] = 2]
  /\ Shown(s, NoMsg)
  /\ UNCHANGED <<store, present, cache, today, flaky, faults, session, menu, inc_step, inc_data,
                 callvars>>

\* Step 2, the Back button (lines 198-200)
DailyBack2(s) ==
  /\ InView(s, "Rheuma CARE Daily") /\ daily_step[s] = 2
  /\ daily_step' = [daily_step EXCEPT ![s] = 1]
  /\ Shown(s, NoMsg)
  /\ UNCHANGED <<store, present, cache, today, flaky, faults, session, menu, daily_data,
                 inc_step, inc_data, callvars>>
  /\ HistRoom /\ Record("Back", EmptyDict)

\* Step 2, the Next button (lines 201-209)
DailyNext2(s) ==
  /\ InView(s, "Rheuma CARE Daily") /\ daily_step[s] = 2
  /\ \E in \in Step2Inputs :
       /\ daily_data' = [daily_data EXCEPT ![s] = Update(@, in)]
       /\ HistRoom /\ Record("Next", in)
  /\ daily_step' = [daily_step EXCEPT ![s] = 3]
  /\ Shown(s, NoMsg)
  /\ UNCHANGED <<store, present, cache, today, flaky, faults, session, menu, inc_step, inc_data,
                 callvars>>

\* a Back button that starts the wizard over
DailyBack3ToStart(s) ==
  /\ InView(s, "Rheuma CARE Daily") /\ daily_step[s] = 3
  /\ daily_step' = [daily_step EXCEPT ![s] = 1]
  /\ Shown(s, NoMsg)
  /\ UNCHANGED <<store, present, cache, today, flaky, faults, session, menu, daily_data,
                 inc_step, inc_data, callvars>>
  /\ HistRoom /\ Record("Back", EmptyDict)

\* Step 3, the Back button (lines 236-238)
DailyBack3(s) ==
  /\ InView(s, "Rheuma CARE Daily") /\ daily_step[s] = 3
  /\ daily_step' = [daily_step EXCEPT ![s] = 2]
  /\ Shown(s, NoMsg)
  /\ UNCHANGED <<store, present, cache, today, flaky, faults, session, menu, daily_data,
                 inc_step, inc_data, callvars>>
  /\ HistRoom /\ Record("Back", EmptyDict)

\* Step 3, the Next button (lines 239-248)
DailyNext3(s) ==
  /\ InView(s, "Rheuma CARE Daily") /\ daily_step[s] = 3
  /\ \E in \in Step3Inputs :
       /\ daily_data' = [daily_data EXCEPT ![s] = Update(@, in)]
       /\ HistRoom /\ Record("Next", in)
  /\ daily_step' = [daily_step EXCEPT ![s] = 4]
  /\ Shown(s, NoMsg)
  /\ UNCHANGED <<store, present, cache, today, flaky, faults, session, menu, inc_step, inc_data,
                 callvars>>

\* Step 4, the Back button (lines 265-267)
DailyBack4(s) ==
  /\ InView(s, "Rheuma CARE Daily") /\ DailySubmitShown(s)
  /\ daily_step' = [daily_step EXCEPT ![s] = 3]
  /\ Shown(s, NoMsg)
  /\ UNCHANGED <<store, present, cache, today, flaky, faults, session, menu, daily_data,
                 inc_step, inc_data, callvars>>
  /\ HistRoom /\ Record("Back", EmptyDict)

\* rows in the first n tabs of spreadsheet st
RECURSIVE RowCount(_, _)
RowCount(st, n) == IF n = 0 THEN 0 ELSE Len(st[tabs[n]]) + RowCount(st, n - 1)

\* the spreadsheet takes a new submission while it holds fewer than MaxRows rows
\* more than it was deployed with
CanWrite(tab) ==
  RowCount(store, Len(tabs)) < RowCount(InitStore(HolidayRows), Len(tabs)) + MaxRows

\* Step 4, the Submit button: retry_api_call(_submit) is entered (lines 269-310)
DailySubmit(s) ==
  /\ InView(s, "Rheuma CARE Daily") /\ DailySubmitShown(s)
  /\ CanWrite("Daily_Logs")
  /\ \E in \in Step4Inputs : Enter(s, "_submit", in)
  /\ Shown(s, NoMsg)
  /\ UNCHANGED <<store, present, cache, today, flaky, faults, session, menu, wizards>>
  /\ UNCHANGED hist

\* lines 311-316: retry_api_call(_submit) returned
SubmitDone(s) ==
  /\ pc[s] = "returned" /\ op[s] = "_submit"
  /\ cache' = NoSnapshot
  /\ msg' = [msg EXCEPT ![s] = Success("Daily log saved successfully!")]
  /\ daily_step' = [daily_step EXCEPT ![s] = 1]
  /\ daily_data' = [daily_data EXCEPT ![s] = EmptyDict]
  /\ Leave(s)
  /\ UNCHANGED <<store, present, today, flaky, faults, session, menu, inc_step, inc_data>>
  /\ Restart

\* an except clause that also starts the wizard over
SubmitExceptReset(s) ==
  /\ pc[s] = "raised" /\ op[s] = "_submit"
  /\ msg' = [msg EXCEPT ![s] = Error("Error saving data", err[s])]
  /\ daily_step' = [daily_step EXCEPT ![s] = 1]
  /\ daily_data' = [daily_data EXCEPT ![s] = EmptyDict]
  /\ Leave(s)
  /\ UNCHANGED <<store, present, cache, today, flaky, faults, session, menu, inc_step, inc_data>>
  /\ UNCHANGED hist

\* lines 317-318: retry_api_call(_submit) raised
SubmitExcept(s) ==
  /\ pc[s] = "raised" /\ op[s] = "_submit"
  /\ msg' = [msg EXCEPT ![s] = Error("Error saving data", err[s])]
  /\ Leave(s)
  /\ UNCHANGED <<store, present, cache, today, flaky, faults, session, menu, wizards>>
  /\ UNCHANGED hist

\* --------------------------------------------------- show_incident_reporting
\* the Report button is drawn by the branch of the last step only (line 353)
ReportShown(s) == inc_step[s] = IncN

\* Step 1, Next (lines 335-338)
IncNext1(s) ==
  /\ InView(s, "Incident Reporting") /\ inc_step[s] = 1
  /\ \E cat \in IncCats :
       /\ inc_data' = [inc_data EXCEPT ![s] = Update(@, [category |-> cat])]
       /\ HistRoom /\ Record("Next", [category |-> cat])
  /\ inc_step' = [inc_step EXCEPT ![s] = 2]
  /\ Shown(s, NoMsg)
  /\ UNCHANGED <<store, present, cache, today, flaky, faults, session, menu, daily_step,
                 daily_data, callvars>>

\* Step 2, Back (lines 345-347), drawn after line 341 has read the category
IncBack2(s) ==
  /\ InView(s, "Incident Reporting") /\ inc_step[s] = 2
  /\ "category" \in DOMAIN inc_data[s]
  /\ inc_step' = [inc_step EXCEPT ![s] = 1]
  /\ Shown(s, NoMsg)
  /\ UNCHANGED <<store, present, cache, today, flaky, faults, session, menu, daily_step,
                 daily_data, inc_data, callvars>>
  /\ HistRoom /\ Record("Back", EmptyDict)

\* a Next that keeps an issue recorded before
IncNext2Keeping(s) ==
  /\ InView(s, "Incident Reporting") /\ inc_step[s] = 2
  /\ "category" \in DOMAIN inc_data[s]
  /\ \E subcat \in IncSubs(inc_data[s]["category"]) :
       /\ inc_data' = [inc_data EXCEPT ![s] =
                          IF "subcategory" \in DOMAIN @ THEN @
                          ELSE Update(@, [subcategory |-> subcat])]
       /\ HistRoom /\ Record("Next", [subcategory |-> subcat])
  /\ inc_step' = [inc_step EXCEPT ![s] = 3]
  /\ Shown(s, NoMsg)
  /\ UNCHANGED <<store, present, cache, today, flaky, faults, session, menu, daily_step,
                 daily_data, callvars>>

\* Step 2, Next (lines 341-351): the radio offers the issues of the stored category
IncNext2(s) ==
  /\ InView(s, "Incident Reporting") /\ inc_step[s] = 2
  /\ "category" \in DOMAIN inc_data[s]
  /\ \E subcat \in IncSubs(inc_data[s]["category"]) :
       /\ inc_data' = [inc_data EXCEPT ![s] = Update(@, [subcategory |-> subcat])]
       /\ HistRoom /\ Record("Next", [subcategory |-> subcat])
  /\ inc_step' = [inc_step EXCEPT ![s] = 3]
  /\ Shown(s, NoMsg)
  /\ UNCHANGED <<store, present, cache, today, flaky, faults, session, menu, daily_step,
                 daily_data, callvars>>

\* a Back that returns to the first step
IncBack3ToStart(s) ==
  /\ InView(s, "Incident Reporting") /\ ReportShown(s)
  /\ {"category", "subcategory"} \subseteq DOMAIN inc_data[s]
  /\ inc_step' = [inc_step EXCEPT ![s] = 1]
  /\ Shown(s, NoMsg)
  /\ UNCHANGED <<store, present, cache, today, flaky, faults, session, menu, daily_step,
                 daily_data, inc_data, callvars>>
  /\ HistRoom /\ Record("Back", EmptyDict)

\* Step 3, Back (lines 359-361), drawn after line 355 has read both keys
IncBack3(s) ==
  /\ InView(s, "Incident Reporting") /\ ReportShown(s)
  /\ {"category", "subcategory"} \subseteq DOMAIN inc_data[s]
  /\ inc_step' = [inc_step EXCEPT ![s] = 2]
  /\ Shown(s, NoMsg)
  /\ UNCHANGED <<store, present, cache, today, flaky, faults, session, menu, daily_step,
                 daily_data, inc_data, callvars>>
  /\ HistRoom /\ Record("Back", EmptyDict)

\* Step 3, Report Incident: retry_api_call(_report) is entered (lines 363-378)
IncReport(s) ==
  /\ InView(s, "Incident Reporting") /\ ReportShown(s)
  /\ {"category", "subcategory"} \subseteq DOMAIN inc_data[s]
  /\ CanWrite("Incidents")
  /\ \E in \in IncInputs : Enter(s, "_report", in)
  /\ Shown(s, NoMsg)
  /\ UNCHANGED <<store, present, cache, today, flaky, faults, session, menu, wizards>>
  /\ UNCHANGED hist

\* lines 379-382: retry_api_call(_report) returned
ReportDone(s) ==
  /\ pc[s] = "returned" /\ op[s] = "_report"
  /\ cache' = NoSnapshot
  /\ msg' = [msg EXCEPT ![s] = Success("Incident Reported!")]
  /\ inc_step' = [inc_step EXCEPT ![s] = 1]
  /\ inc_data' = [inc_data EXCEPT ![s] = EmptyDict]
  /\ Leave(s)
  /\ UNCHANGED <<store, present, today, flaky, faults, session, menu, daily_step, daily_data>>
  /\ Restart

\* lines 383-384: retry_api_call(_report) raised
ReportExcept(s) ==
  /\ pc[s] = "raised" /\ op[s] = "_report"
  /\ msg' = [msg EXCEPT ![s] = Error("Error", err[s])]
  /\ Leave(s)
  /\ UNCHANGED <<store, present, cache, today, flaky, faults, session, menu, wizards>>
  /\ UNCHANGED hist

\* ------------------------------------------------------------ show_contact_us
\* a Call button (lines 411-419), drawn for a service whose number is set
CallService(s) ==
  /\ InView(s, "Contact Us") /\ cache # NoSnapshot
  /\ CanWrite("Service_Logs")
  /\ LET services == get_center_service_numbers(cache[1], center[s])
     IN \E name \in DOMAIN services :
          /\ services[name] # "Not Set"
          /\ Enter(s, "_log_call", [name |-> name, number |-> services[name]])
  /\ Shown(s, NoMsg)
  /\ UNCHANGED <<store, present, cache, today, flaky, faults, session, menu, wizards>>
  /\ UNCHANGED hist

\* lines 420-421: retry_api_call(_log_call) returned
CallDone(s) ==
  /\ pc[s] = "returned" /\ op[s] = "_log_call"
  /\ msg' = [msg EXCEPT ![s] = Success("Logged! Dial")]
  /\ Leave(s)
  /\ UNCHANGED <<store, present, cache, today, flaky, faults, session, menu, wizards>>
  /\ UNCHANGED hist

\* lines 422-423: retry_api_call(_log_call) raised
CallExcept(s) ==
  /\ pc[s] = "raised" /\ op[s] = "_log_call"
  /\ msg' = [msg EXCEPT ![s] = Error("Logging failed", err[s])]
  /\ Leave(s)
  /\ UNCHANGED <<store, present, cache, today, flaky, faults, session, menu, wizards>>
  /\ UNCHANGED hist

\* -------------------------------------------------------------- show_reminders
\* Update Reminders (lines 452-462)
UpdateReminders(s) ==
  /\ InView(s, "Reminders") /\ cache # NoSnapshot
  /\ CanWrite("Reminders")
  /\ \E new_values \in ReminderInputs : Enter(s, "_update", new_values)
  /\ Shown(s, NoMsg)
  /\ UNCHANGED <<store, present, cache, today, flaky, faults, session, menu, wizards>>
  /\ UNCHANGED hist

\* lines 463-464: retry_api_call(_update) returned
UpdateDone(s) ==
  /\ pc[s] = "returned" /\ op[s] = "_update"
  /\ msg' = [msg EXCEPT ![s] = Success("Reminders Updated")]
  /\ cache' = NoSnapshot
  /\ Leave(s)
  /\ UNCHANGED <<store, present, today, flaky, faults, session, menu, wizards>>
  /\ UNCHANGED hist

\* lines 465-466: retry_api_call(_update) raised
UpdateExcept(s) ==
  /\ pc[s] = "raised" /\ op[s] = "_update"
  /\ msg' = [msg EXCEPT ![s] = Error("Error", err[s])]
  /\ Leave(s)
  /\ UNCHANGED <<store, present, cache, today, flaky, faults, session, menu, wizards>>
  /\ UNCHANGED hist

\* --------------------------------------------------------- show_holiday_manager
\* Add (lines 480-488)
AddHoliday(s) ==
  /\ InView(s, "Holiday List") /\ cache # NoSnapshot
  /\ CanWrite("Holidays")
  /\ \E in \in HolidayInputs : Enter(s, "_add", in)
  /\ Shown(s, NoMsg)
  /\ UNCHANGED <<store, present, cache, today, flaky, faults, session, menu, wizards>>
  /\ UNCHANGED hist

\* lines 489-490: retry_api_call(_add) returned
AddDone(s) ==
  /\ pc[s] = "returned" /\ op[s] = "_add"
  /\ msg' = [msg EXCEPT ![s] = Success("Holiday Added")]
  /\ cache' = NoSnapshot
  /\ Leave(s)
  /\ UNCHANGED <<store, present, today, flaky, faults, session, menu, wizards>>
  /\ UNCHANGED hist

\* lines 491-492: retry_api_call(_add) raised
AddExcept(s) ==
  /\ pc[s] = "raised" /\ op[s] = "_add"
  /\ msg' = [msg EXCEPT ![s] = Error("Error", err[s])]
  /\ Leave(s)
  /\ UNCHANGED <<store, present, cache, today, flaky, faults, session, menu, wizards>>
  /\ UNCHANGED hist

\* ---------------------------------------- show_supervisor_dashboard, tab 4
\* df_users['Center_Name'].unique() of the snapshot
available_centers(data) ==
  LET df_users == DF(data, "Users")
  IN {df_users[i].Center_Name : i \in 1..Len(df_users)}

\* Save Contact (lines 549-557), with a phone number typed in
SaveContact(s) ==
  /\ logged_in[s] /\ Idle(s) /\ role[s] = "Supervisor" /\ cache # NoSnapshot
  /\ CanWrite("Service_Contacts")
  /\ \E s_center \in available_centers(cache[1]), s_service \in ContactServices,
        s_number \in ContactNumbers :
       Enter(s, "_save_contact",
             [s_center |-> s_center, s_service |-> s_service, s_number |-> s_number])
  /\ Shown(s, NoMsg)
  /\ UNCHANGED <<store, present, cache, today, flaky, faults, session, menu, wizards>>
  /\ UNCHANGED hist

\* lines 558-559: retry_api_call(_save_contact) returned
SaveContactDone(s) ==
  /\ pc[s] = "returned" /\ op[s] = "_save_contact"
  /\ msg' = [msg EXCEPT ![s] = Success("Contact Updated!")]
  /\ cache' = NoSnapshot
  /\ Leave(s)
  /\ UNCHANGED <<store, present, today, flaky, faults, session, menu, wizards>>
  /\ UNCHANGED hist

\* lines 560-561: retry_api_call(_save_contact) raised
SaveContactExcept(s) ==
  /\ pc[s] = "raised" /\ op[s] = "_save_contact"
  /\ msg' = [msg EXCEPT ![s] = Error("Error", err[s])]
  /\ Leave(s)
  /\ UNCHANGED <<store, present, cache, today, flaky, faults, session, menu, wizards>>
  /\ UNCHANGED hist

\* ------------------------------------------- retry_api_call on any operation
\* retry_api_call(func) for an operation that returns its invocation number
\* or raises
MockCall(s) ==
  /\ Idle(s)
  /\ Enter(s, "mock", NoArg)
  /\ Shown(s, NoMsg)
  /\ UNCHANGED <<store, present, cache, today, flaky, faults, session, menu, wizards>>
  /\ UNCHANGED hist

\* line 20: func() is invoked and returns or raises
MockInvoke(s) ==
  /\ pc[s] = "mock"
  /\ \E o \in {"ok"} \cup Errors, j \in Jitters :
       IF o = "ok"
       THEN /\ pc' = [pc EXCEPT ![s] = "returned"]
            /\ ret' = [ret EXCEPT ![s] = ncalls[s]]
            /\ UNCHANGED <<att, ncalls, waits, fails, swallowed, err, pos, fdata>>
       ELSE /\ Caught(s, o, j)
            /\ UNCHANGED ret
  /\ UNCHANGED <<store, present, cache, today, flaky, faults, ui, op, arg, applied>>
  /\ UNCHANGED hist

\* the caller of retry_api_call takes the value or the exception
MockEnd(s) ==
  /\ pc[s] \in {"returned", "raised"} /\ op[s] = "mock"
  /\ msg' = [msg EXCEPT ![s] =
               IF pc[s] = "returned" THEN Success("returned") ELSE Error("raised", err[s])]
  /\ Leave(s)
  /\ UNCHANGED <<store, present, cache, today, flaky, faults, session, menu, wizards>>
  /\ UNCHANGED hist

\* ------------------------------------------------------------ specifications
\* The spreadsheet as deployed: two users, one contact, the Service_Logs worksheet
\* not yet created, and a holiday list out of `holidays`; nobody is logged in and
\* nothing is cached. The store may fail f remote calls, among those in `calls`.
\* the state after construction: the spreadsheet is one of `stores` with the
\* worksheets of one of `sheets`, nothing is cached and no session is logged in
InitOf(f, calls, stores, sheets) ==
  /\ store \in stores
  /\ flaky = calls
  /\ present \in sheets
  /\ cache = NoSnapshot
  /\ today = 1
  /\ faults = f
  /\ logged_in = [s \in Sessions |-> FALSE]
  /\ username = [s \in Sessions |-> <<>>]
  /\ center = [s \in Sessions |-> ""]
  /\ role = [s \in Sessions |-> ""]
  /\ menu = [s \in Sessions |-> menus[1]]
  /\ daily_step = [s \in Sessions |-> 1]
  /\ daily_data = [s \in Sessions |-> EmptyDict]
  /\ inc_step = [s \in Sessions |-> 1]
  /\ inc_data = [s \in Sessions |-> EmptyDict]
  /\ msg = [s \in Sessions |-> NoMsg]
  /\ pc = [s \in Sessions |-> "idle"]
  /\ op = [s \in Sessions |-> "none"]
  /\ att = [s \in Sessions |-> 0]
  /\ ncalls = [s \in Sessions |-> 0]
  /\ waits = [s \in Sessions |-> <<>>]
  /\ fails = [s \in Sessions |-> <<>>]
  /\ swallowed = [s \in Sessions |-> EmptyDict]
  /\ err = [s \in Sessions |-> NoError]
  /\ ret = [s \in Sessions |-> 0]
  /\ arg = [s \in Sessions |-> NoArg]
  /\ pos = [s \in Sessions |-> 0]
  /\ fdata = [s \in Sessions |-> EmptyDict]
  /\ applied = [s \in Sessions |-> <<>>]

\* the deployed spreadsheet, its Holidays tab being one of `holidays`
InitWith(f, calls, holidays) ==
  InitOf(f, calls, {InitStore(h) : h \in holidays}, {TabNames \ {"Service_Logs"}})

Init == InitWith(MaxFaults, CallKinds \ {"tab"}, {LaterHolidayRows}) /\ hist = Off

\* one session in the two wizards, the store failing up to MaxFaults remote calls
\* other than the reads of _fetch (SpecForms has those fail)
Next ==
  \E s \in {"A"} :
       \/ LogIn(s) \/ SelectWizard(s) \/ Render(s)
       \/ Open(s) \/ FetchTab(s) \/ LoadReturn(s) \/ LoadRaise(s)
       \/ Lookup(s) \/ Add(s) \/ AppendRow(s)
       \/ DailyNext1(s) \/ DailyBack2(s) \/ DailyNext2(s) \/ DailyBack3(s)
       \/ DailyNext3(s) \/ DailyBack4(s)
       \/ DailySubmit(s) \/ SubmitDone(s) \/ SubmitExcept(s)
       \/ IncNext1(s) \/ IncBack2(s) \/ IncNext2(s) \/ IncBack3(s)
       \/ IncReport(s) \/ ReportDone(s) \/ ReportExcept(s)

Spec == Init /\ [][Next]_vars

\* one session in the three forms and the supervisor's contact form, the store
\* failing up to MaxFaults remote calls
NextForms ==
  \/ Expire
  \/ \E s \in {"A"} :
       \/ LogIn(s) \/ LogOut(s) \/ SelectForm(s) \/ Render(s)
       \/ Open(s) \/ FetchTab(s) \/ LoadReturn(s) \/ LoadRaise(s)
       \/ Lookup(s) \/ Add(s) \/ AppendRow(s)
       \/ CallService(s) \/ CallDone(s) \/ CallExcept(s)
       \/ UpdateReminders(s) \/ UpdateDone(s) \/ UpdateExcept(s)
       \/ AddHoliday(s) \/ AddDone(s) \/ AddExcept(s)
       \/ SaveContact(s) \/ SaveContactDone(s) \/ SaveContactExcept(s)

InitForms == InitWith(MaxFaults, CallKinds, {HolidayRows}) /\ hist = Off

SpecForms == InitForms /\ [][NextForms]_vars

\* retry_api_call run by both sessions on an operation of any behaviour
NextRetry == \E s \in Sessions : MockCall(s) \/ MockInvoke(s) \/ MockEnd(s)

SpecRetry == Init /\ [][NextRetry]_vars

\* one session in the daily-log wizard, the events since Step 1 listed in hist
InitWizard == InitWith(0, {}, {LaterHolidayRows, HolidayRows}) /\ hist = <<>>

NextWizard ==
  \E s \in {"A"} :
       \/ LogIn(s) \/ Open(s) \/ FetchTab(s) \/ LoadReturn(s)
       \/ DailyNext1(s) \/ DailyBack2(s) \/ DailyNext2(s) \/ DailyBack3(s)
       \/ DailyNext3(s) \/ DailyBack4(s)

SpecWizard == InitWizard /\ [][NextWizard]_vars

\* one browser session over logins and logouts: both wizards, the menu, Log Out
\* and the writes, the store never failing
InitSession == InitWith(0, {}, {LaterHolidayRows}) /\ hist = Off

NextSession ==
  \E s \in {"A"} :
       \/ LogIn(s) \/ LogOut(s) \/ SelectWizard(s) \/ Render(s)
       \/ Open(s) \/ FetchTab(s) \/ LoadReturn(s)
       \/ Lookup(s) \/ AppendRow(s)
       \/ DailyNext1(s) \/ DailyBack2(s) \/ DailyNext2(s) \/ DailyBack3(s)
       \/ DailyNext3(s) \/ DailyBack4(s)
       \/ DailySubmit(s) \/ SubmitDone(s)
       \/ IncNext1(s) \/ IncBack2(s) \/ IncNext2(s) \/ IncBack3(s)
       \/ IncReport(s) \/ ReportDone(s)

SpecSession == InitSession /\ [][NextSession]_vars

\* a remote call of the session's script thread, which runs on until the
\* handler is over
CallStep(s) ==
  Open(s) \/ Lookup(s) \/ Add(s) \/ AppendRow(s) \/ FetchTab(s)

\* one session that logs in and makes every write, the store failing up to
\* MaxFaults remote calls other than the reads of _fetch; the script thread
\* keeps taking its remote calls
InitLive == InitWith(MaxFaults, CallKinds \ {"tab"}, {HolidayRows}) /\ hist = Off

NextLive ==
  \E s \in {"A"} :
       \/ LogIn(s) \/ SelectMenuIn(s, {menus[i] : i \in 1..Len(menus)})
       \/ Open(s) \/ FetchTab(s) \/ LoadReturn(s) \/ LoadRaise(s)
       \/ Lookup(s) \/ Add(s) \/ AppendRow(s)
       \/ DailyNext1(s) \/ DailyNext2(s) \/ DailyNext3(s)
       \/ DailySubmit(s) \/ SubmitDone(s) \/ SubmitExcept(s)
       \/ IncNext1(s) \/ IncNext2(s)
       \/ IncReport(s) \/ ReportDone(s) \/ ReportExcept(s)
       \/ CallService(s) \/ CallDone(s) \/ CallExcept(s)
       \/ UpdateReminders(s) \/ UpdateDone(s) \/ UpdateExcept(s)
       \/ AddHoliday(s) \/ AddDone(s) \/ AddExcept(s)
       \/ SaveContact(s) \/ SaveContactDone(s) \/ SaveContactExcept(s)

SpecLive == InitLive /\ [][NextLive]_vars /\ WF_vars(CallStep("A"))

\* ------------------------------------------------- the readers of a snapshot
\* Users tabs: the deployed one, an empty one, one without a Password column,
\* one with two rows of the same credentials, one without a Center_Name column
UsersTables ==
  {UsersRows,
   <<>>,
   <<[Username |-> <<"u1">>, Role |-> "Centre Manager", Center_Name |-> "c1"]>>,
   <<[Username |-> <<"u1", " ">>, Password |-> <<" ", "p1">>, Role |-> "Centre Manager",
      Center_Name |-> "c2"],
     [Username |-> <<"u1">>, Password |-> <<"p1">>, Role |-> "Supervisor",
      Center_Name |-> "HQ"]>>,
   <<[Username |-> <<"u1">>, Password |-> <<"p1">>, Role |-> "Centre Manager"]>>}

\* Holidays tabs: an empty one, the two of the deployment, a holiday of another
\* centre, one without a Center column, one with a row of each centre
HolidaysTables ==
  {<<>>,
   HolidayRows,
   LaterHolidayRows,
   <<[Date |-> FmtDMY(2), Name |-> "Onam", Center |-> "c2"]>>,
   <<[Date |-> FmtDMY(2), Name |-> "Onam"]>>,
   <<[Date |-> FmtDMY(2), Name |-> "Onam", Center |-> "c2"],
     [Date |-> <<" ">> \o FmtYMD(3), Name |-> "Vishu", Center |-> "c1"]>>}

\* Service_Contacts tabs: the deployed one, an empty one, a number replaced,
\* a number followed by a blank one, rows of another centre and of an unknown
\* service, one without a Service_Name column
ContactsTables ==
  {ContactRows,
   <<>>,
   <<[Center |-> "c1", Service_Name |-> "AC Service", Phone_Number |-> "1111"],
     [Center |-> "c1", Service_Name |-> "AC Service", Phone_Number |-> "2222"]>>,
   <<[Center |-> "c1", Service_Name |-> "AC Service", Phone_Number |-> "1111"],
     [Center |-> "c1", Service_Name |-> "AC Service", Phone_Number |-> ""]>>,
   <<[Center |-> "c2", Service_Name |-> "AC Service", Phone_Number |-> "3333"],
     [Center |-> "c1", Service_Name |-> "Lift Service", Phone_Number |-> "4444"]>>,
   <<[Center |-> "c1", Phone_Number |-> "9999"]>>}

ReaderStores ==
  {[t \in TabNames |->
      CASE t = "Users" -> u
        [] t = "Holidays" -> h
        [] t = "Service_Contacts" -> k
        [] OTHER -> <<>>] :
     u \in UsersTables, h \in HolidaysTables, k \in ContactsTables}

\* the worksheets of the spreadsheet: all but Service_Logs, or with more missing
ReaderSheets ==
  {TabNames \ {"Service_Logs"},
   TabNames \ {"Service_Logs", "Users"},
   TabNames \ {"Service_Logs", "Holidays", "Service_Contacts"}}

\* date.today() moves on to the next day
Midnight ==
  /\ today < MaxDay
  /\ today' = today + 1
  /\ UNCHANGED <<store, present, cache, flaky, faults, ui, callvars, hist>>

\* one session logs in, answers Step 1 of the daily log and presses Call, over
\* every spreadsheet of ReaderStores; no remote call fails
InitReaders == InitOf(0, {}, ReaderStores, ReaderSheets) /\ hist = Off

NextReaders ==
  \/ Midnight
  \/ \E s \in {"A"} :
       \/ LogIn(s) \/ SelectMenuIn(s, {"Rheuma CARE Daily", "Contact Us"})
       \/ Open(s) \/ FetchTab(s) \/ LoadReturn(s)
       \/ DailyNext1(s) \/ DailyBack2(s)
       \/ CallService(s) \/ Lookup(s) \/ Add(s) \/ AppendRow(s) \/ CallDone(s)

SpecReaders == InitReaders /\ [][NextReaders]_vars

\* ------------------------------------------ show_supervisor_dashboard, tab 1
\* Series.unique(): the values in the order of their first appearance
RECURSIVE unique(_)
unique(q) ==
  IF q = <<>> THEN <<>>
  ELSE LET init == unique(SubSeq(q, 1, Len(q) - 1))
           last == q[Len(q)]
       IN IF \E i \in 1..Len(init) : init[i] = last THEN init ELSE Append(init, last)

\* line 504: the centres of the users whose Role is Centre Manager
all_centers(data) ==
  LET df_users == DF(data, "Users")
      IsManager(r) == r.Role = "Centre Manager"
      managers == SelectSeq(df_users, IsManager)
  IN IF df_users = EmptyDF THEN <<>>
     ELSE unique([i \in 1..Len(managers) |-> managers[i].Center_Name])

\* the logs of every day
day_logs_all(df_logs, date_sel) == df_logs

\* lines 506-510: the logs whose Timestamp falls on date_sel
day_logs(df_logs, date_sel) ==
  LET OnDay(r) == to_date(r.Timestamp) = date_sel
  IN IF df_logs # EmptyDF THEN SelectSeq(df_logs, OnDay) ELSE EmptyDF

\* lines 512-517: one status row per centre
status_rows(data, date_sel) ==
  LET logs == day_logs(DF(data, "Daily_Logs"), date_sel)
      centers == all_centers(data)
      Status(c) == IF \E i \in 1..Len(logs) : logs[i].Center_Name = c
                   THEN "Reported" ELSE "Missing"
  IN [i \in 1..Len(centers) |-> [Centre |-> centers[i], Status |-> Status(centers[i])]]

\* st.dataframe(df_status) under the date input
Dataframe(date_sel, rows) ==
  [kind |-> "dataframe", text |-> "", date_sel |-> date_sel, rows |-> rows]

\* the supervisor picks a date of tab 1 and the run draws the status table
SelectDate(s) ==
  /\ logged_in[s] /\ Idle(s) /\ role[s] = "Supervisor" /\ cache # NoSnapshot
  /\ \E date_sel \in 1..MaxDay :
       Shown(s, Dataframe(date_sel, status_rows(cache[1], date_sel)))
  /\ UNCHANGED <<store, present, cache, today, flaky, faults, session, menu, wizards,
                 callvars>>
  /\ UNCHANGED hist

\* Users tabs a supervisor logs in with: the deployed one, one with three
\* managers of two centres, one with no manager
SupervisorUsers ==
  {UsersRows,
   <<[Username |-> <<"u1">>, Password |-> <<"p1">>, Role |-> "Centre Manager",
      Center_Name |-> "c1"],
     [Username |-> <<"sup">>, Password |-> <<"ps">>, Role |-> "Supervisor",
      Center_Name |-> "HQ"],
     [Username |-> <<"u2">>, Password |-> <<"p2">>, Role |-> "Centre Manager",
      Center_Name |-> "c2"],
     [Username |-> <<"u3">>, Password |-> <<"p3">>, Role |-> "Centre Manager",
      Center_Name |-> "c1"]>>,
   <<[Username |-> <<"sup">>, Password |-> <<"ps">>, Role |-> "Supervisor",
      Center_Name |-> "HQ"]>>}

\* a Daily_Logs row, of which the dashboard reads the Timestamp and the centre
LogRow(d, t, c) == [Timestamp |-> Stamp(d, t), Username |-> <<"u">>, Center_Name |-> c]

\* Daily_Logs tabs: none, one log, two logs of a centre on a day and one of
\* another centre the day after, a log of a centre that has no manager
LogsTables ==
  {<<>>,
   <<LogRow(1, "09:00:00", "c1")>>,
   <<LogRow(1, "09:00:00", "c1"), LogRow(1, "18:30:00", "c1"), LogRow(2, "00:00:01", "c2")>>,
   <<LogRow(2, "23:59:59", "c1"), LogRow(3, "10:00:00", "c2")>>,
   <<LogRow(1, "09:00:00", "c9")>>}

SupervisorStores ==
  {[t \in TabNames |->
      CASE t = "Users" -> u
        [] t = "Daily_Logs" -> l
        [] OTHER -> <<>>] :
     u \in SupervisorUsers, l \in LogsTables}

\* one session logs in and the supervisor looks at the status of each day
InitSupervisor ==
  /\ InitOf(0, {}, SupervisorStores,
            {TabNames \ {"Service_Logs"}, TabNames \ {"Service_Logs", "Daily_Logs"}})
  /\ hist = Off

NextSupervisor ==
  \E s \in {"A"} :
       \/ LogIn(s) \/ Open(s) \/ FetchTab(s) \/ LoadReturn(s)
       \/ SelectDate(s)

SpecSupervisor == InitSupervisor /\ [][NextSupervisor]_vars

\* ------------------------------------------------- show_reminders, the form
\* datetime.strptime(t, "%Y-%m-%d").date(): the day, or 0 for the ValueError
strptime(t) ==
  IF \E d \in 1..5 : t = FmtYMD(d) THEN CHOOSE d \in 1..5 : t = FmtYMD(d) ELSE 0

\* lines 438-442: the loop over the rows of the centre; a Due_Date that does
\* not parse leaves the entry as it is (except: pass)
RECURSIVE reminders_loop(_, _)
reminders_loop(rows, defaults) ==
  IF rows = <<>> THEN defaults
  ELSE LET row == Head(rows)
           parsed == IF "Due_Date" \in DOMAIN row THEN strptime(row.Due_Date) ELSE 0
       IN reminders_loop(Tail(rows),
            IF row.Type \in DOMAIN defaults /\ parsed # 0
            THEN [defaults EXCEPT ![row.Type] = parsed]
            ELSE defaults)

\* lines 430-442: the date each date_input starts with, 0 being None
reminder_defaults(data, center_name) ==
  LET df_rem == DF(data, "Reminders")
      defaults == [t \in {reminder_types[i] : i \in 1..Len(reminder_types)} |-> 0]
      OfCenter(r) == r.Center = center_name
  IN IF df_rem # EmptyDF /\ {"Center", "Type"} \subseteq Columns(df_rem)
     THEN reminders_loop(SelectSeq(df_rem, OfCenter), defaults)
     ELSE defaults

\* the reminders form as the run draws it
RemindersForm(defaults) == [kind |-> "reminders_form", text |-> "", defaults |-> defaults]

\* a run of the Reminders view over the cached snapshot
ShowReminders(s) ==
  /\ InView(s, "Reminders") /\ cache # NoSnapshot
  /\ Shown(s, RemindersForm(reminder_defaults(cache[1], center[s])))
  /\ UNCHANGED <<store, present, cache, today, flaky, faults, session, menu, wizards,
                 callvars>>
  /\ UNCHANGED hist

\* a Reminders row
ReminderRow(c, t, due) == [Center |-> c, Type |-> t, Due_Date |-> due, Recorded |-> 1]

\* Reminders tabs: none, one date, a date replaced, a date replaced by one
\* typed as DD/MM/YYYY, rows of another centre and of another type
RemindersTables ==
  {<<>>,
   <<ReminderRow("c1", "Rent", FmtYMD(2))>>,
   <<ReminderRow("c1", "Rent", FmtYMD(2)), ReminderRow("c1", "Rent", FmtYMD(3))>>,
   <<ReminderRow("c1", "Rent", FmtYMD(2)), ReminderRow("c1", "Rent", FmtDMY(3))>>,
   <<ReminderRow("c2", "Rent", FmtYMD(2)), ReminderRow("c1", "Gas", FmtYMD(3))>>}

RemindersStores ==
  {[t \in TabNames |->
      CASE t = "Users" -> UsersRows
        [] t = "Reminders" -> r
        [] OTHER -> <<>>] : r \in RemindersTables}

\* one session in the Reminders view: it looks at the form and updates it
InitReminders ==
  /\ InitOf(0, {}, RemindersStores,
            {TabNames \ {"Service_Logs"}, TabNames \ {"Service_Logs", "Reminders"}})
  /\ hist = Off

NextReminders ==
  \E s \in {"A"} :
       \/ LogIn(s) \/ SelectMenuIn(s, {"Rheuma CARE Daily", "Reminders"})
       \/ Render(s) \/ Open(s) \/ FetchTab(s) \/ LoadReturn(s)
       \/ ShowReminders(s)
       \/ UpdateReminders(s) \/ Lookup(s) \/ Add(s) \/ AppendRow(s) \/ UpdateDone(s)

SpecReminders == InitReminders /\ [][NextReminders]_vars

\* one session whose views call load_data, with the ttl, the clear() after a
\* holiday is added and reads of _fetch that fail
NextLoad ==
  \/ Expire
  \/ \E s \in {"A"} :
       \/ LogIn(s) \/ LogOut(s) \/ SelectForm(s) \/ Render(s)
       \/ Open(s) \/ FetchTab(s) \/ LoadReturn(s) \/ LoadRaise(s)
       \/ Lookup(s) \/ Add(s) \/ AppendRow(s)
       \/ AddHoliday(s) \/ AddDone(s) \/ AddExcept(s)

SpecLoad == InitForms /\ [][NextLoad]_vars

\* one session in the incident wizard, its events kept in hist
InitIncident == InitWith(0, {}, {LaterHolidayRows}) /\ hist = <<>>

NextIncident ==
  \E s \in {"A"} :
       \/ LogIn(s) \/ Open(s) \/ FetchTab(s) \/ LoadReturn(s)
       \/ SelectWizard(s)
       \/ IncNext1(s) \/ IncBack2(s) \/ IncNext2(s) \/ IncBack3(s)
       \/ IncReport(s) \/ Lookup(s) \/ AppendRow(s) \/ ReportDone(s)

SpecIncident == InitIncident /\ [][NextIncident]_vars

\* one session in the two wizards that also logs out, the store failing up to
\* MaxFaults of the append_row calls
InitAccum == InitWith(MaxFaults, {"append_row"}, {LaterHolidayRows}) /\ hist = Off

NextAccum ==
  \E s \in {"A"} :
       \/ LogIn(s) \/ LogOut(s) \/ SelectWizard(s) \/ Render(s)
       \/ Open(s) \/ FetchTab(s) \/ LoadReturn(s)
       \/ Lookup(s) \/ AppendRow(s)
       \/ DailyNext1(s) \/ DailyBack2(s) \/ DailyNext2(s) \/ DailyBack3(s)
       \/ DailyNext3(s) \/ DailyBack4(s)
       \/ DailySubmit(s) \/ SubmitDone(s) \/ SubmitExcept(s)
       \/ IncNext1(s) \/ IncBack2(s) \/ IncNext2(s) \/ IncBack3(s)
       \/ IncReport(s) \/ ReportDone(s) \/ ReportExcept(s)

SpecAccum == InitAccum /\ [][NextAccum]_vars

\* ===================================================================== claims
\* ------------------------------------------------ retry wrapper (SpecRetry)
\* the error texts the wrapper is specified to retry on
QuotaTexts == {"429", "Quota exceeded"}

NonDecreasing(w) == \A k \in 1..(Len(w) - 1) : w[k] <= w[k + 1]

\* C3: the wrapper retries only after a transient failure. A failure of any
\* other class is the last invocation of the call: the wrapper has raised with
\* the original error, the operation was not invoked again, and no wait was
\* made for it.
C3_OtherErrorsSurfaceAtOnce ==
  \A s \in Sessions :
    op[s] = "mock" =>
      \A k \in 1..Len(fails[s]) :
        fails[s][k] \notin QuotaTexts =>
          /\ k = Len(fails[s])
          /\ pc[s] = "raised"
          /\ err[s] = fails[s][k]
          /\ ncalls[s] = k
          /\ Len(waits[s]) = k - 1

\* a transient failure, a retry, then a failure of another class has been raised
C3_Witness ==
  \E s \in Sessions :
    /\ op[s] = "mock" /\ pc[s] = "raised"
    /\ fails[s] = <<"429", "500">>
    /\ err[s] = "500"

\* C4: when every invocation fails transiently, the wrapper gives up with the
\* quota-exceeded error after retries (3) re-invocations, four invocations in all.
C4_ThreeReinvocations ==
  \A s \in Sessions :
    (op[s] = "mock" /\ pc[s] = "raised" /\ err[s] = QuotaError) =>
      ncalls[s] = retries + 1

\* C5: an operation that fails transiently twice and then succeeds hands back
\* the third invocation's result and no error, and the waits between the
\* attempts never decrease.
C5_ThirdAttemptResult ==
  \A s \in Sessions :
    op[s] = "mock" =>
      /\ NonDecreasing(waits[s])
      /\ (pc[s] = "returned" /\ Len(fails[s]) = 2) =>
           /\ \A k \in 1..2 : fails[s][k] \in QuotaTexts
           /\ ret[s] = 3
           /\ err[s] = NoError
           /\ Len(waits[s]) = 2

\* two transient failures, then the third invocation returned
C5_Witness ==
  \E s \in Sessions :
    /\ op[s] = "mock" /\ pc[s] = "returned"
    /\ fails[s] = <<"429", "Quota exceeded">>
    /\ Len(waits[s]) = 2 /\ waits[s][1] < waits[s][2]

\* ------------------------------------------------------- the wizards (Spec)
WizardOps == {"_submit", "_report"}

WizardState(s) == <<daily_step[s], daily_data[s], inc_step[s], inc_data[s]>>

\* C2: while the write of a wizard is under way, and when it has raised, the
\* step pointer and the accumulator of both wizards stay what they were when
\* Submit was pressed; they change only in the step taken after
\* retry_api_call returned, when the row is in the worksheet.
C2_ResetOnlyAfterWrite ==
  [][\A s \in Sessions :
       op[s] \in WizardOps =>
         IF pc[s] = "returned"
         THEN /\ applied[s] = Rows(s)
              /\ \E k \in 1..Len(store[TabOf(op[s])]) :
                   store[TabOf(op[s])][k] = Rows(s)[1]
         ELSE WizardState(s)' = WizardState(s)]_vars

\* a daily-log write has raised and its handler has reported it: the wizard is
\* still at the last step with its answers
C2_Witness ==
  \E s \in Sessions :
    /\ msg[s] = Error("Error saving data", QuotaError)
    /\ pc[s] = "idle"
    /\ daily_step[s] = DailyN
    /\ daily_data[s] # EmptyDict

\* C9: below the last step of a wizard no Submit transition exists: the
\* session cannot start the wizard's write, no write of it is under way, and
\* a write is entered from the last step only, leaving step pointer and
\* accumulator as they are.
C9_SubmitOnlyAtLastStep ==
  [][\A s \in Sessions :
       /\ daily_step[s] < DailyN =>
            /\ ~ENABLED DailySubmit(s)
            /\ op[s] # "_submit" /\ op'[s] # "_submit"
       /\ inc_step[s] < IncN =>
            /\ ~ENABLED IncReport(s)
            /\ op[s] # "_report" /\ op'[s] # "_report"
       /\ (op[s] \notin WizardOps /\ op'[s] \in WizardOps) =>
            WizardState(s)' = WizardState(s)
       /\ \A tab \in {"Daily_Logs", "Incidents"} :
            store'[tab] # store[tab] =>
              \E t \in Sessions :
                /\ op[t] \in WizardOps /\ TabOf(op[t]) = tab
                /\ (tab = "Daily_Logs" => daily_step[t] = DailyN)
                /\ (tab = "Incidents" => inc_step[t] = IncN)]_vars

\* the daily-log page one step before the last, answers entered, nothing under
\* way, room in the worksheet: Submit cannot be pressed
C9_Witness ==
  \E s \in Sessions :
    /\ InView(s, "Rheuma CARE Daily")
    /\ daily_step[s] = DailyN - 1
    /\ daily_data[s] # EmptyDict
    /\ CanWrite("Daily_Logs")
    /\ ~ENABLED DailySubmit(s)

\* ------------------------------------------------------ the forms (SpecForms)
\* how many times row r is in the sequence rows
Count(rows, r) == Cardinality({k \in 1..Len(rows) : rows[k] = r})

\* C1: when the handler of a write that succeeded has finished, the shared
\* cache holds no snapshot, so the session's next load_data() fetches the
\* worksheets with the new row.
C1_WriteInvalidatesCache ==
  [][\A s \in Sessions :
       (op[s] \in WriteOps /\ pc[s] = "returned" /\ pc'[s] = "idle") =>
         cache' = NoSnapshot]_vars

\* C6: when a write returns from retry_api_call, each row of the submission
\* has been appended to the worksheet at most once.
C6_NoDoubleApply ==
  \A s \in Sessions :
    (op[s] \in WriteOps /\ pc[s] = "returned") =>
      \A k \in 1..Len(Rows(s)) : Count(applied[s], Rows(s)[k]) <= 1

\* C7: load_data stores no snapshot in which a worksheet that exists in the
\* store with rows is empty because its read raised a transient error.
C7_NoDegradedSnapshot ==
  [][\A s \in Sessions :
       (op[s] = "_fetch" /\ pc[s] = "returned" /\ cache' = Snapshot(fdata[s])) =>
         \A tab \in DOMAIN swallowed[s] :
           ~ /\ swallowed[s][tab] \in QuotaTexts
             /\ tab \in present /\ store[tab] # <<>>
             /\ DF(fdata[s], tab) = EmptyDF]_vars

\* ------------------------------------------- daily-log wizard (SpecWizard)
Events(h) == [k \in 1..Len(h) |-> h[k].e]

NextNextBack == <<"Next", "Next", "Back">>

\* C10: from Step 1 with an empty accumulator, Next, Next, Back lands on
\* Step 2 with the answers of step 1 and of step 2 both in the accumulator.
C10_NextNextBackAtStep2 ==
  \A s \in {"A"} :
    (hist # Off /\ Events(hist) = NextNextBack) =>
      /\ daily_step[s] = 2
      /\ daily_data[s] = Update(hist[1].in, hist[2].in)
      /\ DOMAIN hist[1].in \cap DOMAIN hist[2].in = {}

\* Next, Next, Back have been taken, in that order, from Step 1
C10_Witness ==
  \E s \in {"A"} :
    /\ hist # Off /\ Events(hist) = NextNextBack
    /\ InView(s, "Rheuma CARE Daily")
    /\ hist[1].in.offline_backup = "YES"
    /\ hist[2].in.cash_received = 250

\* C10 as stated: Next, Next, Back lands on Step 1 with the step-1 answers in
\* the accumulator and the step-2 answers gone from it.
C10_NextNextBackAtStep1 ==
  \A s \in {"A"} :
    (hist # Off /\ Events(hist) = NextNextBack) =>
      /\ daily_step[s] = 1
      /\ daily_data[s] = hist[1].in

\* ------------------------------------- logins and logouts (SpecSession)
\* C11: a session that is not logged in, which after the first login means
\* that it has logged out, has both wizards at step 1 with an empty
\* accumulator, so nothing entered before the logout is left for the next login.
C11_LogoutClearsWizards ==
  \A s \in Sessions :
    ~logged_in[s] =>
      /\ daily_step[s] = 1 /\ daily_data[s] = EmptyDict
      /\ inc_step[s] = 1 /\ inc_data[s] = EmptyDict

\* ------------------------------------------ every call path ends (SpecLive)
\* C12: retry_api_call never invokes its operation more than retries times,
\* and every retry_api_call the session enters, for the load or for one of
\* the six writes, comes to return or to raise.
C12_CallsEnd ==
  /\ [](\A s \in Sessions : ncalls[s] <= retries)
  /\ (pc["A"] # "idle") ~> (pc["A"] \in {"returned", "raised"})

\* a write has used up its retries: the last of retries invocations failed
C12_Witness ==
  /\ op["A"] \in WriteOps /\ pc["A"] = "raised"
  /\ err["A"] = QuotaError
  /\ ncalls["A"] = retries

\* ------------------------------------------------ the readers (SpecReaders)
\* the texts of the day after `day` in the two forms a Holidays row may use
TomorrowTexts(day) ==
  {<<DayText(day + 1), "/", "MM", "/", "YYYY">>,
   <<"YYYY", "-", "MM", "-", DayText(day + 1)>>}

\* the cached Holidays table has the Date and Center columns and a row of the
\* centre whose trimmed Date is tomorrow
HolidayRowTomorrow(data, c, day) ==
  LET rows == DF(data, "Holidays")
  IN \E i \in 1..Len(rows) :
       /\ {"Date", "Center"} \subseteq DOMAIN rows[i]
       /\ rows[i].Center = c
       /\ Strip(rows[i].Date) \in TomorrowTexts(day)

\* C13: when Next is pressed at Step 1 of the daily log, the server-shutdown
\* question has been asked (is_holiday_tomorrow returned true) exactly when
\* the cached Holidays table has the Date and Center columns and a row of the
\* session's centre whose trimmed Date is tomorrow as DD/MM/YYYY or
\* YYYY-MM-DD; with the table absent, empty, without a column or without a
\* row of the centre the answer is N/A (it returned false).
C13_HolidayTomorrow ==
  [][\A s \in Sessions :
       (daily_step[s] = 1 /\ daily_step'[s] = 2) =>
         ((daily_data'[s].server_shutdown # "N/A")
            <=> HolidayRowTomorrow(cache[1], center[s], today))]_vars

\* the question was asked for a holiday whose Date was typed with blanks
C13_Witness ==
  /\ daily_step["A"] = 2 /\ cache # NoSnapshot
  /\ daily_data["A"].server_shutdown \in {"YES", "NO"}
  /\ \E i \in 1..Len(DF(cache[1], "Holidays")) :
       LET r == DF(cache[1], "Holidays")[i]
       IN /\ r.Center = center["A"]
          /\ r.Date # Strip(r.Date)
          /\ Strip(r.Date) \in TomorrowTexts(today)

\* ----------------------------------------- the status table (SpecSupervisor)
\* the centres of the cached Users rows whose Role is Centre Manager
Entities(data) ==
  LET rows == DF(data, "Users")
  IN {rows[i].Center_Name : i \in {j \in 1..Len(rows) : rows[j].Role = "Centre Manager"}}

\* the cached Daily_Logs has an entry of centre c whose Timestamp is of day d
LoggedOn(data, c, d) ==
  LET rows == DF(data, "Daily_Logs")
  IN \E i \in 1..Len(rows) :
       rows[i].Center_Name = c /\ rows[i].Timestamp[5] = DayText(d)

\* C14: the status table drawn for a date has exactly one row per centre:
\* Reported when the cached Daily_Logs has at least one entry of the centre
\* whose Timestamp falls on that date, Missing otherwise; the Reported and the
\* Missing rows together are as many as the centres, also with no Daily_Logs.
C14_OneStatusPerCentre ==
  \A s \in Sessions :
    msg[s].kind = "dataframe" =>
      LET rows == msg[s].rows
          d == msg[s].date_sel
          Of(st) == {i \in 1..Len(rows) : rows[i].Status = st}
      IN /\ \A c \in Entities(cache[1]) :
              /\ Cardinality({i \in 1..Len(rows) : rows[i].Centre = c}) = 1
              /\ \A i \in 1..Len(rows) :
                   rows[i].Centre = c =>
                     rows[i].Status = IF LoggedOn(cache[1], c, d) THEN "Reported"
                                      ELSE "Missing"
         /\ Cardinality(Of("Reported")) + Cardinality(Of("Missing"))
              = Cardinality(Entities(cache[1]))
         /\ Len(rows) = Cardinality(Entities(cache[1]))

\* a table with a centre Reported by two logs of the day and a centre Missing
\* whose only log is of another day
C14_Witness ==
  /\ msg["A"].kind = "dataframe"
  /\ \E i, j \in 1..Len(msg["A"].rows) :
       /\ msg["A"].rows[i].Status = "Reported"
       /\ msg["A"].rows[j].Status = "Missing"
       /\ \E k \in 1..Len(DF(cache[1], "Daily_Logs")) :
            DF(cache[1], "Daily_Logs")[k].Center_Name = msg["A"].rows[j].Centre
  /\ Len(DF(cache[1], "Daily_Logs")) = 3

\* ------------------------------------------------ get_or_create_worksheet
\* C15: get_or_create_worksheet goes on to create a worksheet only when none
\* of that name exists, and no invocation of it fails: neither on a lookup
\* that did not find the worksheet nor by creating one that exists already,
\* whatever made the lookup fail.
C15_CreatesOnlyWhenAbsent ==
  \A s \in Sessions :
    /\ pc[s] = "add" => TabOf(op[s]) \notin present
    /\ \A i \in 1..Len(fails[s]) : fails[s][i] \notin {NotFound, DuplicateError}

\* ---------------------------------------------------- check_login (SpecReaders)
\* the rows of the Users table of `data` whose trimmed Username and Password
\* are the trimmed u and p; none when the table lacks one of its four columns
Matching(data, u, p) ==
  LET rows == DF(data, "Users")
  IN {i \in 1..Len(rows) :
        /\ {"Username", "Password", "Center_Name", "Role"} \subseteq DOMAIN rows[i]
        /\ Strip(rows[i].Username) = Strip(u)
        /\ Strip(rows[i].Password) = Strip(p)}

First(S) == CHOOSE i \in S : \A j \in S : i <= j

\* C16: when check_login has read the Users table for the inputs u and p, the
\* session is logged in exactly when a row's trimmed Username and Password
\* equal the trimmed inputs, and then with the centre and role of the first
\* such row; with no such row (Users absent, empty or without its columns)
\* the session stays logged out and is told so. A session never becomes
\* logged in otherwise: its username, centre and role are those of a row of
\* the snapshot that is the first with its credentials.
C16_LoginByFirstMatch ==
  [][\A s \in Sessions :
       /\ (pc[s] = "returned" /\ op[s] = "_fetch" /\ arg[s].caller = "check_login"
             /\ pc'[s] = "idle") =>
            LET m == Matching(fdata[s], arg[s].u, arg[s].p)
                rows == DF(fdata[s], "Users")
            IN IF m = {}
               THEN /\ ~logged_in'[s]
                    /\ msg'[s] = Error("Invalid credentials", NoError)
               ELSE /\ logged_in'[s]
                    /\ username'[s] = arg[s].u
                    /\ center'[s] = rows[First(m)].Center_Name
                    /\ role'[s] = rows[First(m)].Role
       /\ (logged_in'[s] /\ ~logged_in[s]) =>
            /\ cache' # NoSnapshot
            /\ \E i \in 1..Len(DF(cache'[1], "Users")) :
                 LET r == DF(cache'[1], "Users")[i]
                 IN /\ "Password" \in DOMAIN r
                    /\ i \in Matching(cache'[1], username'[s], r.Password)
                    /\ i = First(Matching(cache'[1], username'[s], r.Password))
                    /\ center'[s] = r.Center_Name
                    /\ role'[s] = r.Role]_vars

\* a login with a blank typed before the username, the Users table holding two
\* rows of those credentials: the session has the centre of the first
C16_Witness ==
  /\ logged_in["A"] /\ cache # NoSnapshot
  /\ username["A"] # Strip(username["A"])
  /\ Cardinality({i \in 1..Len(DF(cache[1], "Users")) :
                    Strip(DF(cache[1], "Users")[i].Username) = Strip(username["A"])}) = 2
  /\ center["A"] = DF(cache[1], "Users")[1].Center_Name
  /\ center["A"] # DF(cache[1], "Users")[2].Center_Name

\* ----------------------------------- get_center_service_numbers (SpecReaders)
\* the number of the last row of (c, sv) that has a number, "Not Set" without
\* one or when the table lacks the Center or the Service_Name column
LatestNumber(data, c, sv) ==
  LET rows == DF(data, "Service_Contacts")
      of == {i \in 1..Len(rows) :
               /\ {"Center", "Service_Name"} \subseteq DOMAIN rows[i]
               /\ rows[i].Center = c /\ rows[i].Service_Name = sv
               /\ rows[i].Phone_Number # ""}
  IN IF of = {} THEN "Not Set"
     ELSE rows[CHOOSE i \in of : \A j \in of : j <= i].Phone_Number

\* C18: for the centre of a logged-in session, get_center_service_numbers on
\* the cached snapshot has an entry for each of the twelve built-in services
\* and no other: the number of the latest Service_Contacts row of that centre
\* and service that has a number, "Not Set" without one; rows of other
\* centres and of other services change nothing. A Call button logs the
\* number so found.
C18_LatestContactWins ==
  \A s \in Sessions :
    (logged_in[s] /\ cache # NoSnapshot) =>
      LET got == get_center_service_numbers(cache[1], center[s])
      IN /\ DOMAIN got = {required_services[i] : i \in 1..Len(required_services)}
         /\ Cardinality(DOMAIN got) = 12
         /\ \A sv \in DOMAIN got : got[sv] = LatestNumber(cache[1], center[s], sv)
         /\ (pc[s] # "idle" /\ op[s] = "_log_call") =>
              /\ arg[s].number # "Not Set"
              /\ arg[s].number = LatestNumber(cache[1], center[s], arg[s].name)

\* a Call of a service whose number was replaced by a later row
C18_Witness ==
  /\ op["A"] = "_log_call" /\ cache # NoSnapshot
  /\ Len(DF(cache[1], "Service_Contacts")) = 2
  /\ DF(cache[1], "Service_Contacts")[1].Service_Name = arg["A"].name
  /\ DF(cache[1], "Service_Contacts")[1].Phone_Number # arg["A"].number
  /\ DF(cache[1], "Service_Contacts")[2].Phone_Number = arg["A"].number

\* ------------------------------------------- the reminders form (SpecReminders)
\* C17: the date the reminders form shows for a type is the due date of the
\* most recently appended Reminders row of the session's centre and that
\* type, whichever of the two date forms that row's Due_Date was typed in;
\* no date when there is no such row.
C17_LastReminderWins ==
  \A s \in Sessions :
    (msg[s].kind = "reminders_form" /\ cache # NoSnapshot) =>
      \A t \in DOMAIN msg[s].defaults :
        LET rows == DF(cache[1], "Reminders")
            of == {i \in 1..Len(rows) : rows[i].Center = center[s] /\ rows[i].Type = t}
            last == CHOOSE i \in of : \A j \in of : j <= i
            shown == msg[s].defaults[t]
        IN IF of = {} THEN shown = 0
           ELSE shown # 0 /\ rows[last].Due_Date \in {FmtYMD(shown), FmtDMY(shown)}

\* ------------------------------------------- the step pointers (SpecSession)
\* the keys the Next of each step writes
DailyFields ==
  <<{"offline_backup", "server_shutdown"},
    {"cash_deposit", "cash_received", "upi_amount", "card_amount"},
    {"bill_recep", "bill_phar", "bill_lab", "bill_phys", "cnt_rebook", "cnt_tele",
     "cnt_conf", "cnt_def", "cnt_can"}>>

IncFields == <<{"category"}, {"subcategory"}>>

\* d2 is d with the keys of F written and nothing else touched
MergedOnly(d, d2, F) ==
  /\ DOMAIN d2 = DOMAIN d \cup F
  /\ \A k \in DOMAIN d \ F : d2[k] = d[k]

\* the step from step pointer k and accumulator d to k2 and d2 is a Next, a
\* Back, the reset after the wizard's write returned, or a Log Out
WizardMove(s, k, d, k2, d2, N, Fields, write) ==
  /\ k2 # k =>
       \/ k < N /\ k2 = k + 1 /\ MergedOnly(d, d2, Fields[k])
       \/ k > 1 /\ k2 = k - 1 /\ d2 = d
       \/ k2 = 1 /\ d2 = EmptyDict /\ pc[s] = "returned" /\ op[s] = write
       \/ k2 = 1 /\ d2 = d /\ logged_in[s] /\ ~logged_in'[s]
  /\ d2 # d =>
       \/ k2 = k + 1
       \/ d2 = EmptyDict /\ pc[s] = "returned" /\ op[s] = write

\* C19: the step pointer of the daily log stays within 1..4 and that of the
\* incident wizard within 1..3 through every Next, Back, Submit, menu switch
\* and Log Out; a Next goes from step k to k+1 and writes the keys of step k
\* only, a Back goes from k to k-1 and leaves the accumulator as it is; no
\* Back can be pressed at step 1 and no Next at the last step.
C19_StepsInRange ==
  /\ [](\A s \in Sessions :
          /\ daily_step[s] \in 1..DailyN /\ inc_step[s] \in 1..IncN
          /\ daily_step[s] = 1 =>
               ~ENABLED (DailyBack2(s) \/ DailyBack3(s) \/ DailyBack4(s))
          /\ daily_step[s] = DailyN =>
               ~ENABLED (DailyNext1(s) \/ DailyNext2(s) \/ DailyNext3(s))
          /\ inc_step[s] = 1 => ~ENABLED (IncBack2(s) \/ IncBack3(s))
          /\ inc_step[s] = IncN => ~ENABLED (IncNext1(s) \/ IncNext2(s)))
  /\ [][\A s \in Sessions :
          /\ WizardMove(s, daily_step[s], daily_data[s], daily_step'[s], daily_data'[s],
                        DailyN, DailyFields, "_submit")
          /\ WizardMove(s, inc_step[s], inc_data[s], inc_step'[s], inc_data'[s],
                        IncN, IncFields, "_report")]_vars

\* the incident wizard was taken back from its last step, both keys being in
\* the accumulator at step 2, while the daily log stands at its last step
C19_Witness ==
  /\ logged_in["A"] /\ pc["A"] = "idle"
  /\ daily_step["A"] = DailyN
  /\ inc_step["A"] = IncN - 1
  /\ {"category", "subcategory"} \subseteq DOMAIN inc_data["A"]

\* ------------------------------------------------------- load_data (SpecLoad)
\* C20: a session enters the fetch of load_data only when no snapshot is
\* cached, and a cached snapshot stays the same until it is dropped (ttl or
\* clear); a fetch reads the seven tabs without raising or retrying on any of
\* them, and the dict it returns has an entry for each of the seven: the
\* rows of a worksheet it read, the empty table for a worksheet that is
\* absent or whose read failed.
C20_HitAndMiss ==
  [][\A s \in Sessions :
       /\ (pc[s] = "idle" /\ op'[s] = "_fetch") => cache = NoSnapshot
       /\ (cache # NoSnapshot /\ cache' # cache) => cache' = NoSnapshot
       /\ pc[s] = "tab" =>
            /\ pc'[s] \in {"tab", "returned"}
            /\ ncalls'[s] = ncalls[s] /\ err'[s] = err[s]
       /\ (op[s] = "_fetch" /\ pc'[s] = "returned") =>
            /\ DOMAIN fdata'[s] = {"Daily_Logs", "Users", "Incidents", "Service_Logs",
                                   "Reminders", "Holidays", "Service_Contacts"}
            /\ \A tab \in DOMAIN fdata'[s] :
                 fdata'[s][tab] = IF tab \in present /\ tab \notin DOMAIN swallowed'[s]
                                  THEN store[tab] ELSE <<>>
            /\ \A tab \in DOMAIN swallowed'[s] : fdata'[s][tab] = <<>>]_vars

\* a fetch returned with an absent worksheet and one whose read failed both
\* empty, and the Users rows read
C20_Witness ==
  /\ op["A"] = "_fetch" /\ pc["A"] = "returned"
  /\ "Service_Logs" \notin present
  /\ fdata["A"]["Service_Logs"] = <<>>
  /\ \E tab \in DOMAIN swallowed["A"] :
       /\ swallowed["A"][tab] \in StoreErrors
       /\ store[tab] # <<>> /\ fdata["A"][tab] = <<>>
  /\ fdata["A"]["Users"] = store["Users"]

\* ------------------------------------------ incident rows (SpecIncident)
\* the issues the taxonomy lists under a category
Issues(cat) ==
  IF cat \in DOMAIN incident_structure
  THEN {incident_structure[cat][i] : i \in 1..Len(incident_structure[cat])}
  ELSE {}

\* C21: every row of the Incidents worksheet has an issue that the taxonomy
\* lists under the row's category and the status Open, whatever Next and
\* Back events came before Report Incident.
C21_RowWithinTaxonomy ==
  \A i \in 1..Len(store["Incidents"]) :
    LET row == store["Incidents"][i]
    IN /\ row.Subcategory \in Issues(row.Category)
       /\ row.Status = "Open"

\* a row was appended after Next, Next, Back, Back, Next with another
\* category, Next
C21_Witness ==
  /\ hist # Off /\ Len(hist) = 6
  /\ Events(hist) = <<"Next", "Next", "Back", "Back", "Next", "Next">>
  /\ hist[1].in.category # hist[5].in.category
  /\ hist[2].in.subcategory \notin Issues(hist[5].in.category)
  /\ Len(store["Incidents"]) = 1
  /\ store["Incidents"][1].Category = hist[5].in.category

\* ------------------------------------------- the accumulators (SpecAccum)
\* the keys of the steps before step k
FieldsBefore(Fields, k) == UNION {Fields[j] : j \in 1..(k - 1)}

\* C22: a wizard at step k holds in its accumulator every key the steps
\* before k write, through Next, Back, a Submit that failed or succeeded and
\* Log Out; so the row of a daily log is built from keys that are all there,
\* and steps 2 and 3 of the incident wizard find the category and the issue
\* they read.
C22_AccumulatorComplete ==
  \A s \in Sessions :
    /\ FieldsBefore(DailyFields, daily_step[s]) \subseteq DOMAIN daily_data[s]
    /\ FieldsBefore(IncFields, inc_step[s]) \subseteq DOMAIN inc_data[s]
    /\ op[s] = "_submit" => FieldsBefore(DailyFields, DailyN) \subseteq DOMAIN daily_data[s]
    /\ inc_step[s] >= 2 => "category" \in DOMAIN inc_data[s]
    /\ inc_step[s] = 3 => "subcategory" \in DOMAIN inc_data[s]
    /\ op[s] = "_report" => {"category", "subcategory"} \subseteq DOMAIN inc_data[s]

\* a Submit of the daily log failed while the incident wizard stands at its
\* last step
C22_Witness ==
  /\ op["A"] = "_submit" /\ pc["A"] = "raised"
  /\ daily_step["A"] = DailyN
  /\ inc_step["A"] = IncN

\* ------------------------------------------- warnings and waits (SpecRetry)
\* C23: in a call of retry_api_call every warning, with its wait, is followed
\* by a further invocation: the waits made so far are as many as the
\* re-invocations, also when the call has raised the quota error, before
\* which no wait is made.
C23_OneWaitPerRetry ==
  \A s \in Sessions :
    pc[s] # "idle" => Len(waits[s]) = ncalls[s] - 1

====
